---- MODULE Spec2Model ----
(***************************************************************************)
(* The size-targeting compressors of the server (compressImage,            *)
(* compressGif, compressVideo, compressAudio) and the /compress route that *)
(* calls them.                                                             *)
(*                                                                         *)
(* Sizes are counted in units of 1/25 MiB (41943.04 bytes), the unit in    *)
(* which SAFETY_MARGIN = 0.2 * 1024 * 1024 bytes is the whole number 5.    *)
(* File sizes and encoder outputs are multiples of that unit; every        *)
(* comparison and quotient of the source is computed exactly on them       *)
(* (rational arithmetic where the source uses doubles).                    *)
(*                                                                         *)
(* The external encoders (sharp, gifsicle, ffmpeg) are black boxes: every  *)
(* encode returns a size chosen nondeterministically, or fails.            *)
(***************************************************************************)
EXTENDS Integers, Sequences, FiniteSets, TLC

VARIABLES
    pc,              \* position of the request inside the handler / compressor
    media,           \* which compressor runs: "image", "gif", "video", "audio"
    originalSize,    \* size of the input file
    targetSizeBytes, \* the caller's target size
    img,             \* locals of compressImage
    gif,             \* locals of compressGif and binarySearchLossy
    vid,             \* locals of compressVideo and its binarySearchBitrate
    aud,             \* locals of compressAudio and its binarySearchBitrate
    trials,          \* every encode of the current rung's search: <<param, size, kind>>
    rungs,           \* the rung searches finished so far: [rung, best]
    probes,          \* number of metadata probes run
    failed,          \* an external encode call has failed
    result,          \* what the compressor returned or threw
    http,            \* status the route answered with (0: none yet)
    tempFiles,       \* the trial output files of the request now on disk
    now,             \* Date.now() of the server, in milliseconds
    reqs,            \* two requests in flight: position and tmpFilePath
    files,           \* the tmp directory: path -> the request that wrote it
    strat,           \* browser: the locals of each call of a strategy
    posted,          \* browser: what each call and its worker handler posted
    worker,          \* browser: the worker's handler of each message
    tool             \* browser: CompressorTool and its latest upload

requestVars == <<media, originalSize, targetSizeBytes>>

\* The variables of the server's tmp directory under concurrent requests.
uploadVars == <<now, reqs, files>>

\* The variables of the browser side.
clientVars == <<strat, posted, worker, tool>>

\* The variables of one request followed through its compressor.
compressVars == <<pc, requestVars, img, gif, vid, aud, trials, rungs,
                  probes, failed, result, http, tempFiles>>

vars == <<compressVars, uploadVars, clientVars>>

Null == -1
Infinity == 1000000000

\* src/server/compression/imageCompressor.js:4 (0.2 MiB, in units of 1/25 MiB)
SAFETY_MARGIN == 5
MiB == 5 * SAFETY_MARGIN

----------------------------------------------------------------------------
\* Arithmetic of the source on exact rationals n/d.

Max(a, b) == IF a >= b THEN a ELSE b
Min(a, b) == IF a <= b THEN a ELSE b
Abs(a) == IF a >= 0 THEN a ELSE -a

\* floor(n/d), d # 0
FloorDiv(n, d) == IF d > 0 THEN n \div d ELSE (-n) \div (-d)
\* ceil(n/d), d # 0
CeilDiv(n, d) == -FloorDiv(-n, d)
\* Math.round(n/d) = floor(n/d + 1/2), d # 0
Round(n, d) == FloorDiv(2 * n + d, 2 * d)

----------------------------------------------------------------------------
\* The request and the encoder.

\* Variant: the margin is added to the requested size.
ActualTargetAddsMargin(target) == target + SAFETY_MARGIN

ActualTarget(target) == target - SAFETY_MARGIN

\* Bounds of the model: the caller's target in MiB, and how far from the
\* effective target the encoder's near misses land (in units of size).
TargetMiB == 10
NearStep == 1

\* A second target of the model, smaller than SAFETY_MARGIN (in units of
\* size): the effective target of such a request is negative.
TinyTarget == 3

\* Sizes an encode may return for a file of size orig searched towards t:
\* far under, under, within 1% under, exactly t, within 1% over, half way
\* between t and the original, the original size, larger than the original.
EncoderSizes(t, orig) ==
    { s \in { t \div 2, (3 * t) \div 4, t - NearStep, t, t + NearStep,
              t + (orig - t) \div 2, orig, orig + 1 } : s > 0 }

\* The same for the ffmpeg encodes of video and audio.
StreamSizes(t, orig) ==
    { s \in { t \div 2, (3 * t) \div 4, t - NearStep, t + NearStep,
              t + (orig - t) \div 2 } : s > 0 }

NoResult == [kind |-> "none"]
Original(orig) ==
    [kind |-> "ok", buffer |-> "original", originalSize |-> orig,
     compressedSize |-> orig, wasCompressed |-> FALSE, param |-> Null,
     audioMuted |-> "undefined", warning |-> FALSE]
Compressed(orig, size, param, buf) ==
    [kind |-> "ok", buffer |-> buf, originalSize |-> orig,
     compressedSize |-> size, wasCompressed |-> TRUE, param |-> param,
     audioMuted |-> "undefined", warning |-> FALSE]
Thrown(msg) == [kind |-> "error", message |-> msg]


----------------------------------------------------------------------------
\* Helpers shared by the four search controllers.

\* reductionNeeded >= pct / 100, with reductionNeeded = 1 - t / orig
ReductionAtLeast(orig, t, pct) == 100 * (orig - t) >= pct * orig

\* `${filePath}.<suffix><n>.<ext>`: the path of a trial output, next to the
\* request's input file.
TempPath(suffix, n) == [suffix |-> suffix, n |-> n]

\* dataPoints.some(dp => dp.<param> === p)
Tested(dataPoints, p) == \E i \in 1..Len(dataPoints) : dataPoints[i].param = p

\* dataPoints.slice(-2)
LastTwo(dataPoints) ==
    <<dataPoints[Len(dataPoints) - 1], dataPoints[Len(dataPoints)]>>

Point(p, s) == [param |-> p, size |-> s]
Trial(p, s, k) == [param |-> p, size |-> s, kind |-> k]

\* percentageOver <= 1.0 && percentageOver > 0
WithinOnePercentOver(s, t) == s > t /\ 100 * (s - t) <= t

----------------------------------------------------------------------------
\* compressImage

ImageMaxAttempts == 4

\* Variant: files over 10 MB lose 5 whatever the reduction needed.
ImageInitialGuessAnyReduction(orig, t) ==
    LET base == IF ReductionAtLeast(orig, t, 75) THEN 20
                ELSE IF ReductionAtLeast(orig, t, 60) THEN 35
                ELSE IF ReductionAtLeast(orig, t, 45) THEN 50
                ELSE IF ReductionAtLeast(orig, t, 30) THEN 65
                ELSE 80
    IN  IF orig > 20 * MiB /\ ReductionAtLeast(orig, t, 50)
          THEN Max(1, base - 10)
        ELSE IF orig > 10 * MiB
          THEN Max(1, base - 5)
        ELSE base

ImageInitialGuess(orig, t) ==
    LET base == IF ReductionAtLeast(orig, t, 75) THEN 20
                ELSE IF ReductionAtLeast(orig, t, 60) THEN 35
                ELSE IF ReductionAtLeast(orig, t, 45) THEN 50
                ELSE IF ReductionAtLeast(orig, t, 30) THEN 65
                ELSE 80
    IN  IF orig > 20 * MiB /\ ReductionAtLeast(orig, t, 50)
          THEN Max(1, base - 10)
        ELSE IF orig > 10 * MiB /\ ReductionAtLeast(orig, t, 50)
          THEN Max(1, base - 5)
        ELSE base

ImgInit ==
    [bestQuality |-> Null, bestBuffer |-> Null, bestSize |-> Infinity,
     dataPoints |-> <<>>, currentQuality |-> 0, compressedSize |-> 0,
     attempt |-> 0]

\* The quality the loop body picks for its next encode.
ImageNextQuality(v, t) ==
    IF Len(v.dataPoints) >= 2
      THEN LET point1 == LastTwo(v.dataPoints)[1]
               point2 == LastTwo(v.dataPoints)[2]
               qualityDiff == point2.param - point1.param
               sizeDiff == point2.size - point1.size
               sizeNeeded == t - point2.size
           IN  IF sizeDiff = 0
                 THEN IF v.compressedSize > t
                        THEN Max(1, v.currentQuality - 15)
                        ELSE Min(100, v.currentQuality + 15)
                 ELSE Max(1, Min(100,
                        point2.param + Round(sizeNeeded * qualityDiff, sizeDiff)))
      ELSE IF v.compressedSize > t
             THEN Max(1, v.currentQuality - CeilDiv(20 * (v.compressedSize - t), t))
             ELSE Min(100, v.currentQuality + 15)

\* currentQuality - Math.max(1, Math.ceil(percentageOver * 2))
ImageTinyAdjust(q, s, t) == q - Max(1, CeilDiv(200 * (s - t), t))

\* A compressor returns or throws; the caller takes over.
Return(res) ==
    /\ result' = res
    /\ pc' = "returned"

\* Entry of compressImage up to the first encode.
CompressImage(orig, target) ==
    LET t == ActualTarget(target) IN
    /\ media' = "image"
    /\ originalSize' = orig
    /\ targetSizeBytes' = target
    /\ IF orig <= t
         THEN /\ Return(Original(orig))
              /\ img' = img
         ELSE /\ img' = [ImgInit EXCEPT !.currentQuality = ImageInitialGuess(orig, t)]
              /\ pc' = "imageFirst"
              /\ result' = result
    /\ UNCHANGED <<gif, vid, aud, trials, rungs, probes, failed, http,
                   tempFiles, uploadVars, clientVars>>

\* The first encode returns size s.
ImageFirst ==
    /\ pc = "imageFirst"
    /\ \E s \in EncoderSizes(ActualTarget(targetSizeBytes), originalSize) :
         LET t == ActualTarget(targetSizeBytes)
             under == s <= t
         IN  /\ img' = [img EXCEPT
                   !.compressedSize = s,
                   !.dataPoints = <<Point(img.currentQuality, s)>>,
                   !.bestQuality = IF under THEN img.currentQuality ELSE @,
                   !.bestBuffer = IF under THEN 1 ELSE @,
                   !.bestSize = IF under THEN s ELSE @,
                   !.attempt = 1]
             /\ trials' = <<Trial(img.currentQuality, s, "first")>>
    /\ pc' = "imageLoop"
    /\ UNCHANGED <<requestVars, gif, vid, aud, rungs, probes, failed, result,
                   http, tempFiles, uploadVars, clientVars>>

\* After the loop: throw, or return the best candidate.
ImageSelect(v) ==
    IF v.bestQuality = Null
      THEN Thrown("Unable to compress image below target size")
      ELSE Compressed(originalSize, v.bestSize, v.bestQuality, v.bestBuffer)

\* Head of one loop iteration: pick the next quality, stop on a repeat.
ImageLoop ==
    /\ pc = "imageLoop"
    /\ LET t == ActualTarget(targetSizeBytes)
           nextQuality == ImageNextQuality(img, t)
       IN  IF img.attempt >= ImageMaxAttempts \/ Tested(img.dataPoints, nextQuality)
             THEN /\ Return(ImageSelect(img))
                  /\ img' = img
             ELSE /\ img' = [img EXCEPT !.currentQuality = nextQuality]
                  /\ pc' = "imageAttempt"
                  /\ result' = result
    /\ UNCHANGED <<requestVars, gif, vid, aud, trials, rungs, probes, failed,
                   http, tempFiles, uploadVars, clientVars>>

\* The encode of a loop iteration returns size s.
ImageAttempt ==
    /\ pc = "imageAttempt"
    /\ \E s \in EncoderSizes(ActualTarget(targetSizeBytes), originalSize) :
         LET t == ActualTarget(targetSizeBytes)
             n == Len(trials) + 1
             v == [img EXCEPT
                     !.compressedSize = s,
                     !.dataPoints = Append(@, Point(img.currentQuality, s))]
             tinyAdjust == ImageTinyAdjust(img.currentQuality, s, t)
         IN  /\ trials' = Append(trials, Trial(img.currentQuality, s, "attempt"))
             /\ IF s <= t
                  THEN LET w == IF v.bestQuality = Null \/ s > v.bestSize
                                  THEN [v EXCEPT !.bestQuality = img.currentQuality,
                                                 !.bestBuffer = n,
                                                 !.bestSize = s]
                                  ELSE v
                       IN  /\ img' = w
                           /\ Return(ImageSelect(w))
                  ELSE IF /\ WithinOnePercentOver(s, t)
                          /\ tinyAdjust >= 1
                          /\ ~Tested(v.dataPoints, tinyAdjust)
                         THEN /\ img' = [v EXCEPT !.currentQuality = tinyAdjust]
                              /\ pc' = "imageNudge"
                              /\ result' = result
                         ELSE /\ img' = [v EXCEPT !.attempt = @ + 1]
                              /\ pc' = "imageLoop"
                              /\ result' = result
    /\ UNCHANGED <<requestVars, gif, vid, aud, rungs, probes, failed, http,
                   tempFiles, uploadVars, clientVars>>

\* The 'within 1% over' encode returns size s.
ImageNudge ==
    /\ pc = "imageNudge"
    /\ \E s \in EncoderSizes(ActualTarget(targetSizeBytes), originalSize) :
         LET t == ActualTarget(targetSizeBytes)
             n == Len(trials) + 1
             v == [img EXCEPT !.compressedSize = s]
         IN  /\ trials' = Append(trials, Trial(img.currentQuality, s, "nudge"))
             /\ IF s <= t
                  THEN LET w == [v EXCEPT !.bestQuality = img.currentQuality,
                                          !.bestBuffer = n,
                                          !.bestSize = s]
                       IN  /\ img' = w
                           /\ Return(ImageSelect(w))
                  ELSE /\ img' = [v EXCEPT !.attempt = @ + 1]
                       /\ pc' = "imageLoop"
                       /\ result' = result
    /\ UNCHANGED <<requestVars, gif, vid, aud, rungs, probes, failed, http,
                   tempFiles, uploadVars, clientVars>>

----------------------------------------------------------------------------
\* compressGif and binarySearchLossy

MAX_LOSSY == 2000
MIN_LOSSY == 30
GifMaxAttempts == 4

\* Variant: the starting colors depend on the reduction needed alone.
GifStartingColorsByReductionOnly(orig, t) ==
    IF ReductionAtLeast(orig, t, 95) THEN 32
    ELSE IF ReductionAtLeast(orig, t, 90) THEN 64
    ELSE IF ReductionAtLeast(orig, t, 70) THEN 128
    ELSE 256

GifStartingColors(orig, t) ==
    IF ReductionAtLeast(orig, t, 95)
         \/ (ReductionAtLeast(orig, t, 90) /\ orig > 100 * MiB)
      THEN 32
    ELSE IF ReductionAtLeast(orig, t, 90)
         \/ (ReductionAtLeast(orig, t, 85) /\ orig > 50 * MiB)
      THEN 64
    ELSE IF ReductionAtLeast(orig, t, 70) \/ orig > 30 * MiB
      THEN 128
    ELSE 256

GifBaseGuess(orig, t) ==
    IF ReductionAtLeast(orig, t, 75) THEN 200
    ELSE IF ReductionAtLeast(orig, t, 60) THEN 160
    ELSE IF ReductionAtLeast(orig, t, 45) THEN 130
    ELSE IF ReductionAtLeast(orig, t, 30) THEN 100
    ELSE 70

\* fileSizeMultiplier, in tenths
GifFileSizeMultiplier10(orig, t) ==
    IF orig > 30 * MiB
      THEN IF ReductionAtLeast(orig, t, 60) THEN 35
           ELSE IF ReductionAtLeast(orig, t, 40) THEN 22
           ELSE 15
    ELSE IF orig > 20 * MiB
      THEN IF ReductionAtLeast(orig, t, 60) THEN 25
           ELSE IF ReductionAtLeast(orig, t, 40) THEN 18
           ELSE 13
    ELSE IF orig > 10 * MiB
      THEN IF ReductionAtLeast(orig, t, 60) THEN 18 ELSE 13
    ELSE IF orig > 5 * MiB THEN 12
    ELSE 10

GifInitialGuess(orig, t) ==
    Min(MAX_LOSSY,
        Round(GifBaseGuess(orig, t) * GifFileSizeMultiplier10(orig, t), 10))

GifInit ==
    [colors |-> 0, startingColors |-> 0,
     bestLossy |-> Null, bestSize |-> Infinity, bestBuffer |-> Null,
     dataPoints |-> <<>>, currentLossy |-> 0, compressedSize |-> 0,
     attempt |-> 0]

\* The one-point jump of binarySearchLossy when the first output is over
\* target: currentLossy + ceil((currentLossy / currentReduction) *
\* additionalReduction), capped at MAX_LOSSY.  currentReduction = 0 makes the
\* quotient Infinity in the source, and the cap then decides.
GifRatioJump(cur, s, t, orig) ==
    IF s = orig
      THEN MAX_LOSSY
      ELSE Min(MAX_LOSSY, cur + CeilDiv(cur * (s - t) * orig, s * (orig - s)))

\* The lossy level the loop body picks for its next encode.
GifNextLossy(v, t, orig) ==
    IF Len(v.dataPoints) >= 2
      THEN LET point1 == LastTwo(v.dataPoints)[1]
               point2 == LastTwo(v.dataPoints)[2]
               lossyDiff == point2.param - point1.param
               sizeDiff == point2.size - point1.size
               sizeNeeded == t - point2.size
           IN  IF sizeDiff = 0
                 THEN Min(MAX_LOSSY, v.currentLossy + 500)
                 ELSE Max(MIN_LOSSY, Min(MAX_LOSSY,
                        point2.param + Round(sizeNeeded * lossyDiff, sizeDiff)))
      ELSE IF v.compressedSize > t
             THEN GifRatioJump(v.currentLossy, v.compressedSize, t, orig)
             ELSE Max(MIN_LOSSY, v.currentLossy - 40)

\* currentLossy + Math.max(5, Math.ceil(percentageOver * 10))
GifTinyBump(l, s, t) == l + Max(5, CeilDiv(1000 * (s - t), t))

\* binarySearchLossy is entered for one color count.
GifSearchEntry(v, colors, orig, t) ==
    [GifInit EXCEPT !.colors = colors,
                    !.startingColors = v.startingColors,
                    !.currentLossy = GifInitialGuess(orig, t)]

\* Entry of compressGif up to the first encode.
CompressGif(orig, target) ==
    LET t == ActualTarget(target) IN
    /\ media' = "gif"
    /\ originalSize' = orig
    /\ targetSizeBytes' = target
    /\ IF orig <= t
         THEN /\ Return(Original(orig))
              /\ gif' = gif
         ELSE /\ gif' = GifSearchEntry(
                          [gif EXCEPT !.startingColors = GifStartingColors(orig, t)],
                          GifStartingColors(orig, t), orig, t)
              /\ pc' = "gifFirst"
              /\ result' = result
    /\ UNCHANGED <<img, vid, aud, trials, rungs, probes, failed, http,
                   tempFiles, uploadVars, clientVars>>

\* Variant: compressAtLossy returns the buffer and leaves its file.
CompressAtLossyKeepsFile ==
    tempFiles' = tempFiles \cup {TempPath("tmp.gif", 0)}

\* compressAtLossy: gifsicle writes `${filePath}.tmp.gif`, the buffer is read
\* and the file is unlinked before the call returns.
CompressAtLossy ==
    tempFiles' = (tempFiles \cup {TempPath("tmp.gif", 0)})
                     \ {TempPath("tmp.gif", 0)}

\* binarySearchLossy returns to compressGif.
GifSearchReturn(v) ==
    /\ gif' = v
    /\ rungs' = Append(rungs, [rung |-> v.colors, best |-> v.bestLossy])
    /\ pc' = "gifLadder"
    /\ result' = result

\* The first encode of a color rung returns size s.
GifFirst ==
    /\ pc = "gifFirst"
    /\ \E s \in EncoderSizes(ActualTarget(targetSizeBytes), originalSize) :
         LET t == ActualTarget(targetSizeBytes)
             under == s <= t
             v == [gif EXCEPT
                     !.compressedSize = s,
                     !.dataPoints = <<Point(gif.currentLossy, s)>>,
                     !.bestLossy = IF under THEN gif.currentLossy ELSE @,
                     !.bestBuffer = IF under THEN 1 ELSE @,
                     !.bestSize = IF under THEN s ELSE @,
                     !.attempt = 1]
         IN  /\ trials' = <<Trial(gif.currentLossy, s, "first")>>
             /\ IF under /\ ReductionAtLeast(originalSize, t, 60)
                  THEN GifSearchReturn(v)
                  ELSE /\ gif' = v
                       /\ pc' = "gifLoop"
                       /\ UNCHANGED <<rungs, result>>
    /\ CompressAtLossy
    /\ UNCHANGED <<requestVars, img, vid, aud, probes, failed, http, uploadVars, clientVars>>

\* Head of one loop iteration: pick the next lossy level, stop on a repeat.
GifLoop ==
    /\ pc = "gifLoop"
    /\ LET t == ActualTarget(targetSizeBytes)
           nextLossy == GifNextLossy(gif, t, originalSize)
       IN  IF gif.attempt >= GifMaxAttempts \/ Tested(gif.dataPoints, nextLossy)
             THEN GifSearchReturn(gif)
             ELSE /\ gif' = [gif EXCEPT !.currentLossy = nextLossy]
                  /\ pc' = "gifAttempt"
                  /\ UNCHANGED <<rungs, result>>
    /\ UNCHANGED <<requestVars, img, vid, aud, trials, probes, failed, http,
                   tempFiles, uploadVars, clientVars>>

\* The encode of a loop iteration returns size s.
GifAttempt ==
    /\ pc = "gifAttempt"
    /\ \E s \in EncoderSizes(ActualTarget(targetSizeBytes), originalSize) :
         LET t == ActualTarget(targetSizeBytes)
             n == Len(trials) + 1
             v == [gif EXCEPT
                     !.compressedSize = s,
                     !.dataPoints = Append(@, Point(gif.currentLossy, s))]
             tinyBump == GifTinyBump(gif.currentLossy, s, t)
         IN  /\ trials' = Append(trials, Trial(gif.currentLossy, s, "attempt"))
             /\ IF s <= t
                  THEN GifSearchReturn(
                         IF v.bestLossy = Null \/ s > v.bestSize
                           THEN [v EXCEPT !.bestLossy = gif.currentLossy,
                                          !.bestBuffer = n,
                                          !.bestSize = s]
                           ELSE v)
                  ELSE IF /\ WithinOnePercentOver(s, t)
                          /\ tinyBump <= MAX_LOSSY
                          /\ ~Tested(v.dataPoints, tinyBump)
                         THEN /\ gif' = [v EXCEPT !.currentLossy = tinyBump]
                              /\ pc' = "gifNudge"
                              /\ UNCHANGED <<rungs, result>>
                         ELSE /\ gif' = [v EXCEPT !.attempt = @ + 1]
                              /\ pc' = "gifLoop"
                              /\ UNCHANGED <<rungs, result>>
    /\ CompressAtLossy
    /\ UNCHANGED <<requestVars, img, vid, aud, probes, failed, http, uploadVars, clientVars>>

\* Variant: the 'within 1% over' encode is recorded as the best candidate
\* whatever its size.
GifNudgeRecordsAnyOutput ==
    /\ pc = "gifNudge"
    /\ \E s \in EncoderSizes(ActualTarget(targetSizeBytes), originalSize) :
         LET t == ActualTarget(targetSizeBytes)
             n == Len(trials) + 1
             v == [gif EXCEPT !.compressedSize = s]
         IN  /\ trials' = Append(trials, Trial(gif.currentLossy, s, "nudge"))
             /\ IF s <= t \/ s > t
                  THEN GifSearchReturn(
                         [v EXCEPT !.bestLossy = gif.currentLossy,
                                   !.bestBuffer = n,
                                   !.bestSize = s])
                  ELSE /\ gif' = [v EXCEPT !.attempt = @ + 1]
                       /\ pc' = "gifLoop"
                       /\ UNCHANGED <<rungs, result>>
    /\ CompressAtLossy
    /\ UNCHANGED <<requestVars, img, vid, aud, probes, failed, http, uploadVars, clientVars>>

\* The 'within 1% over' encode returns size s.
GifNudge ==
    /\ pc = "gifNudge"
    /\ \E s \in EncoderSizes(ActualTarget(targetSizeBytes), originalSize) :
         LET t == ActualTarget(targetSizeBytes)
             n == Len(trials) + 1
             v == [gif EXCEPT !.compressedSize = s]
         IN  /\ trials' = Append(trials, Trial(gif.currentLossy, s, "nudge"))
             /\ IF s <= t
                  THEN GifSearchReturn(
                         [v EXCEPT !.bestLossy = gif.currentLossy,
                                   !.bestBuffer = n,
                                   !.bestSize = s])
                  ELSE /\ gif' = [v EXCEPT !.attempt = @ + 1]
                       /\ pc' = "gifLoop"
                       /\ UNCHANGED <<rungs, result>>
    /\ CompressAtLossy
    /\ UNCHANGED <<requestVars, img, vid, aud, probes, failed, http, uploadVars, clientVars>>

\* The color count compressGif searches after a search on `colors` found
\* nothing, or Null when no lower rung is left.
GifNextColors(startingColors, colors) ==
    IF colors > 128 /\ startingColors > 128 THEN 128
    ELSE IF colors > 64 /\ startingColors > 64 THEN 64
    ELSE IF colors > 32 /\ startingColors > 32 THEN 32
    ELSE Null

\* Variant: compressGif searches the lower color counts whether or not the
\* search before found a candidate.
GifLadderKeepsGoing ==
    /\ pc = "gifLadder"
    /\ LET t == ActualTarget(targetSizeBytes)
           nextColors == GifNextColors(gif.startingColors, gif.colors)
       IN  IF nextColors # Null
             THEN /\ gif' = GifSearchEntry(gif, nextColors, originalSize, t)
                  /\ pc' = "gifFirst"
                  /\ result' = result
           ELSE IF gif.bestLossy # Null
             THEN /\ Return(Compressed(originalSize, gif.bestSize,
                                       gif.bestLossy, gif.bestBuffer))
                  /\ gif' = gif
           ELSE /\ Return(Thrown("Unable to compress GIF below target size even with 32 colors and max lossy"))
                /\ gif' = gif
    /\ UNCHANGED <<requestVars, img, vid, aud, trials, rungs, probes, failed,
                   http, tempFiles, uploadVars, clientVars>>

\* compressGif after a search returned: next rung, throw, or return.
GifLadder ==
    /\ pc = "gifLadder"
    /\ LET t == ActualTarget(targetSizeBytes)
           nextColors == GifNextColors(gif.startingColors, gif.colors)
       IN  IF gif.bestLossy # Null
             THEN /\ Return(Compressed(originalSize, gif.bestSize,
                                       gif.bestLossy, gif.bestBuffer))
                  /\ gif' = gif
           ELSE IF nextColors # Null
             THEN /\ gif' = GifSearchEntry(gif, nextColors, originalSize, t)
                  /\ pc' = "gifFirst"
                  /\ result' = result
           ELSE /\ Return(Thrown("Unable to compress GIF below target size even with 32 colors and max lossy"))
                /\ gif' = gif
    /\ UNCHANGED <<requestVars, img, vid, aud, trials, rungs, probes, failed,
                   http, tempFiles, uploadVars, clientVars>>

----------------------------------------------------------------------------
\* compressVideo and its binarySearchBitrate

RESOLUTION_STEPS ==
    <<[name |-> "1080p", height |-> 1080],
      [name |-> "720p", height |-> 720],
      [name |-> "480p", height |-> 480],
      [name |-> "360p", height |-> 360]>>

VideoMaxAttempts == 8

\* Math.floor((targetSizeMB * 8 * 1024) / duration)
TargetTotalBitrate(t, duration) == FloorDiv(t * 8 * 1024, MiB * duration)

\* Variant: every budget of 40 kbps or more gets the 24 kbps floor.
DesiredAudioBitrateFloorOnly(targetTotalBitrate) ==
    IF targetTotalBitrate < 40 THEN 0 ELSE 24

DesiredAudioBitrate(targetTotalBitrate) ==
    IF targetTotalBitrate < 40 THEN 0
    ELSE IF targetTotalBitrate < 80 THEN 24
    ELSE Min(32, FloorDiv(targetTotalBitrate * 25, 100))

TargetVideoBitrate(targetTotalBitrate) ==
    Max(8, targetTotalBitrate - DesiredAudioBitrate(targetTotalBitrate))

VidInit ==
    [duration |-> 0, originalBitrate |-> 0, width |-> 0, height |-> 0,
     desiredAudioBitrate |-> 0, targetVideoBitrate |-> 0,
     i |-> Null, rungWidth |-> 0, rungHeight |-> 0,
     minBitrate |-> 0, maxBitrate |-> 0,
     bestBitrate |-> Null, bestSize |-> Infinity, bestBuffer |-> Null,
     dataPoints |-> <<>>, currentBitrate |-> 0, compressedSize |-> 0,
     attempt |-> 0]

\* binarySearchBitrate is entered: fresh locals, first encode at startBitrate.
VideoSearchEntry(v, i, startBitrate, minBitrate, maxBitrate, width, height) ==
    [v EXCEPT !.i = i, !.rungWidth = width, !.rungHeight = height,
              !.minBitrate = minBitrate, !.maxBitrate = maxBitrate,
              !.bestBitrate = Null, !.bestSize = Infinity, !.bestBuffer = Null,
              !.dataPoints = <<>>, !.currentBitrate = startBitrate,
              !.compressedSize = 0, !.attempt = 0]

\* dataPoints.some(dp => Math.abs(dp.bitrate - b) < eps)
Near(dataPoints, b, eps) ==
    \E k \in 1..Len(dataPoints) : Abs(dataPoints[k].param - b) < eps

\* Math.abs(sizeDiff) < 1000 bytes; one unit of size is 41943.04 bytes
NoSizeChange(sizeDiff) == sizeDiff = 0

\* The loop body of binarySearchBitrate up to the 'already tested' check:
\* the next bitrate and the bounds as it leaves them.
VideoLoopHead(v, t) ==
    LET cur == v.currentBitrate
        lo == v.minBitrate
        hi == v.maxBitrate
    IN
    IF Len(v.dataPoints) >= 2
      THEN LET point1 == LastTwo(v.dataPoints)[1]
               point2 == LastTwo(v.dataPoints)[2]
               bitrateDiff == point2.param - point1.param
               sizeDiff == point2.size - point1.size
               sizeNeeded == t - point2.size
           IN  IF NoSizeChange(sizeDiff)
                 THEN IF v.compressedSize > t
                        THEN [next |-> Max(lo, cur - 100), min |-> lo, max |-> cur - 20]
                        ELSE [next |-> Min(hi, cur + 100), min |-> cur + 20, max |-> hi]
                 ELSE LET \* a zero bitrateDiff makes ratePerBitrate infinite
                          \* and bitrateNeeded zero
                          raw == IF bitrateDiff = 0
                                   THEN point2.param
                                   ELSE point2.param
                                          + Round(sizeNeeded * bitrateDiff, sizeDiff)
                          nextBitrate == Max(lo, Min(hi, raw))
                      IN  IF sizeNeeded < 0
                            THEN [next |-> nextBitrate, min |-> lo,
                                  max |-> Max(lo + 20, nextBitrate + 50)]
                            ELSE [next |-> nextBitrate,
                                  min |-> Min(hi - 20, nextBitrate - 50),
                                  max |-> hi]
      ELSE IF v.compressedSize > t
             THEN LET hi1 == IF cur - 50 < lo THEN lo ELSE cur - 50
                      n1 == FloorDiv(lo + hi1, 2)
                  IN  IF n1 <= lo /\ lo > 200
                        THEN [next |-> FloorDiv(Max(200, lo - 100) + hi1, 2),
                              min |-> Max(200, lo - 100), max |-> hi1]
                        ELSE [next |-> n1, min |-> lo, max |-> hi1]
             ELSE LET lo1 == Min(hi, cur + 50)
                  IN  [next |-> FloorDiv(lo1 + hi, 2), min |-> lo1, max |-> hi]

\* Math.max(minBitrate, currentBitrate - Math.max(50, Math.ceil(percentOver * 50)))
VideoTinyAdjust(lo, cur, s, t) ==
    Max(lo, cur - Max(50, CeilDiv(5000 * (s - t), t)))

\* percentBelow <= 1.0
WithinOnePercentBelow(s, t) == 100 * (t - s) <= t

\* Variant: binarySearchBitrate returns without its finally block.
VideoSearchReturnLeavesFiles(v) ==
    /\ vid' = v
    /\ tempFiles' = tempFiles
    /\ rungs' = Append(rungs, [rung |-> v.rungHeight, best |-> v.bestBitrate])
    /\ pc' = "videoLadder"
    /\ result' = result

\* binarySearchBitrate returns to compressVideo; its finally block unlinks
\* every path of tempFiles.
VideoSearchReturn(v) ==
    /\ vid' = v
    /\ tempFiles' = {}
    /\ rungs' = Append(rungs, [rung |-> v.rungHeight, best |-> v.bestBitrate])
    /\ pc' = "videoLadder"
    /\ result' = result

\* Variant: compressVideo without its check for a file already under the
\* target.
CompressVideoAlwaysProbes(orig, target) ==
    /\ media' = "video"
    /\ originalSize' = orig
    /\ targetSizeBytes' = target
    /\ pc' = "videoProbe"
    /\ UNCHANGED <<img, gif, vid, aud, trials, rungs, probes, failed, result,
                   http, tempFiles, uploadVars, clientVars>>

\* Entry of compressVideo up to the metadata probe.
CompressVideo(orig, target) ==
    LET t == ActualTarget(target) IN
    /\ media' = "video"
    /\ originalSize' = orig
    /\ targetSizeBytes' = target
    /\ IF orig <= t
         THEN Return(Original(orig))
         ELSE /\ pc' = "videoProbe"
              /\ result' = result
    /\ UNCHANGED <<img, gif, vid, aud, trials, rungs, probes, failed, http,
                   tempFiles, uploadVars, clientVars>>

\* getVideoMetadata resolves with m; the budget is split and the search on
\* the source resolution starts.
VideoProbe(m) ==
    /\ pc = "videoProbe"
    /\ LET t == ActualTarget(targetSizeBytes)
           targetVideoBitrate == TargetVideoBitrate(TargetTotalBitrate(t, m.duration))
           minBitrate == Max(8, FloorDiv(targetVideoBitrate * 5, 10))
           maxBitrate == m.originalBitrate
           startBitrate == Max(minBitrate, Min(maxBitrate, targetVideoBitrate))
       IN  vid' = VideoSearchEntry(
                    [VidInit EXCEPT
                       !.duration = m.duration,
                       !.originalBitrate = m.originalBitrate,
                       !.width = m.width,
                       !.height = m.height,
                       !.desiredAudioBitrate =
                          DesiredAudioBitrate(TargetTotalBitrate(t, m.duration)),
                       !.targetVideoBitrate = targetVideoBitrate],
                    Null, startBitrate, minBitrate, maxBitrate, m.width, m.height)
    /\ probes' = probes + 1
    /\ pc' = "videoFirst"
    /\ UNCHANGED <<requestVars, img, gif, aud, trials, rungs, failed, result,
                   http, tempFiles, uploadVars, clientVars>>

\* The first encode of a search returns size s.
VideoFirst ==
    /\ pc = "videoFirst"
    /\ \E s \in StreamSizes(ActualTarget(targetSizeBytes), originalSize) :
         LET t == ActualTarget(targetSizeBytes)
             under == s <= t
             v == [vid EXCEPT
                     !.compressedSize = s,
                     !.dataPoints = <<Point(vid.currentBitrate, s)>>,
                     !.bestBitrate = IF under THEN vid.currentBitrate ELSE @,
                     !.bestBuffer = IF under THEN 1 ELSE @,
                     !.bestSize = IF under THEN s ELSE @,
                     !.attempt = 1]
         IN  /\ trials' = <<Trial(vid.currentBitrate, s, "first")>>
             /\ IF under /\ WithinOnePercentBelow(s, t)
                  THEN VideoSearchReturn(v)
                  ELSE /\ vid' = v
                       /\ pc' = "videoLoop"
                       /\ UNCHANGED <<rungs, result>>
                       /\ tempFiles' = tempFiles \cup {TempPath("tmp", 1)}
    /\ UNCHANGED <<requestVars, img, gif, aud, probes, failed, http, uploadVars, clientVars>>

\* Head of one loop iteration: next bitrate and bounds, the stop checks.
VideoLoop ==
    /\ pc = "videoLoop"
    /\ LET t == ActualTarget(targetSizeBytes)
           h == VideoLoopHead(vid, t)
           collapsed == h.max <= h.min
           nextBitrate == IF collapsed THEN h.min ELSE h.next
       IN  IF \/ vid.attempt >= VideoMaxAttempts
              \/ Near(vid.dataPoints, h.next, 20)
              \/ (vid.attempt >= 3 /\ h.max - h.min <= 30)
             THEN VideoSearchReturn(vid)
             ELSE /\ vid' = [vid EXCEPT !.currentBitrate = nextBitrate,
                                        !.minBitrate = h.min,
                                        !.maxBitrate = h.max]
                  /\ pc' = "videoAttempt"
                  /\ UNCHANGED <<rungs, result, tempFiles>>
    /\ UNCHANGED <<requestVars, img, gif, aud, trials, probes, failed, http,
                   uploadVars, clientVars>>

\* The encode of a loop iteration returns size s.
VideoAttempt ==
    /\ pc = "videoAttempt"
    /\ \E s \in StreamSizes(ActualTarget(targetSizeBytes), originalSize) :
         LET t == ActualTarget(targetSizeBytes)
             n == Len(trials) + 1
             cur == vid.currentBitrate
             v == [vid EXCEPT
                     !.compressedSize = s,
                     !.dataPoints = Append(@, Point(cur, s))]
         IN  /\ trials' = Append(trials, Trial(cur, s, "attempt"))
             /\ IF s <= t
                  THEN LET w == IF v.bestBitrate = Null \/ s > v.bestSize
                                  THEN [v EXCEPT !.bestBitrate = cur,
                                                 !.bestBuffer = n,
                                                 !.bestSize = s]
                                  ELSE v
                       IN  IF WithinOnePercentBelow(s, t)
                             THEN VideoSearchReturn(w)
                             ELSE /\ vid' = [w EXCEPT
                                       !.minBitrate = Min(v.maxBitrate, cur + 100),
                                       !.attempt = @ + 1]
                                  /\ pc' = "videoLoop"
                                  /\ UNCHANGED <<rungs, result>>
                                  /\ tempFiles' = tempFiles \cup {TempPath("tmp", vid.attempt + 1)}
                  ELSE LET hi == Max(v.minBitrate, cur - 100)
                           tinyAdjust == VideoTinyAdjust(v.minBitrate, cur, s, t)
                       IN  IF 100 * (s - t) <= t /\ ~Near(v.dataPoints, tinyAdjust, 50)
                             THEN /\ vid' = [v EXCEPT !.maxBitrate = hi,
                                                      !.currentBitrate = tinyAdjust]
                                  /\ pc' = "videoNudge"
                                  /\ UNCHANGED <<rungs, result>>
                                  /\ tempFiles' = tempFiles \cup {TempPath("tmp", vid.attempt + 1)}
                             ELSE /\ vid' = [v EXCEPT !.maxBitrate = hi,
                                                      !.attempt = @ + 1]
                                  /\ pc' = "videoLoop"
                                  /\ UNCHANGED <<rungs, result>>
                                  /\ tempFiles' = tempFiles \cup {TempPath("tmp", vid.attempt + 1)}
    /\ UNCHANGED <<requestVars, img, gif, aud, probes, failed, http, uploadVars, clientVars>>

\* The 'within 1% over' encode returns size s.
VideoNudge ==
    /\ pc = "videoNudge"
    /\ \E s \in StreamSizes(ActualTarget(targetSizeBytes), originalSize) :
         LET t == ActualTarget(targetSizeBytes)
             n == Len(trials) + 1
             v == [vid EXCEPT !.compressedSize = s]
         IN  /\ trials' = Append(trials, Trial(vid.currentBitrate, s, "nudge"))
             /\ IF s <= t
                  THEN VideoSearchReturn(
                         [v EXCEPT !.bestBitrate = vid.currentBitrate,
                                   !.bestBuffer = n,
                                   !.bestSize = s])
                  ELSE /\ vid' = [v EXCEPT !.attempt = @ + 1]
                       /\ pc' = "videoLoop"
                       /\ UNCHANGED <<rungs, result>>
                       /\ tempFiles' = tempFiles \cup {TempPath("tmpfinal", 0)}
    /\ UNCHANGED <<requestVars, img, gif, aud, probes, failed, http, uploadVars, clientVars>>

\* RESOLUTION_STEPS.findIndex(r => r.height >= height), 0-based, -1 if none
FindIndex(height) ==
    LET hits == { k \in 0..(Len(RESOLUTION_STEPS) - 1) :
                    RESOLUTION_STEPS[k + 1].height >= height }
    IN  IF hits = {} THEN -1
        ELSE CHOOSE k \in hits : \A j \in hits : k <= j

\* Index of the first fallback resolution compressVideo tries.
VideoStartIndex(height) ==
    IF FindIndex(height) >= 0 THEN FindIndex(height) + 1 ELSE 1

\* Variant: the missing candidate is checked before the minimal-improvement
\* test.
VideoSelectThrowsFirst(v, orig) ==
    IF v.bestBitrate = Null \/ v.bestBuffer = Null
      THEN Thrown("Unable to compress video below target size")
    ELSE IF 100 * v.bestSize >= 95 * orig
      THEN Original(orig)
    ELSE [Compressed(orig, v.bestSize, v.bestBitrate, v.bestBuffer)
            EXCEPT !.audioMuted = (v.desiredAudioBitrate = 0)]

\* The end of compressVideo: original, throw, or the best candidate.
\* Variant: the minimal-improvement test applies to a size that was found
\* only, not to the Infinity a search without candidate returns.
VideoSelectSkipsInfinity(v, orig) ==
    IF v.bestSize # Infinity /\ 100 * v.bestSize >= 95 * orig
      THEN Original(orig)
    ELSE IF v.bestBitrate = Null \/ v.bestBuffer = Null
      THEN Thrown("Unable to compress video below target size")
    ELSE [Compressed(orig, v.bestSize, v.bestBitrate, v.bestBuffer)
            EXCEPT !.audioMuted = (v.desiredAudioBitrate = 0)]

VideoSelect(v, orig) ==
    IF v.bestSize = Infinity \/ 100 * v.bestSize >= 95 * orig
      THEN Original(orig)
    ELSE IF v.bestBitrate = Null \/ v.bestBuffer = Null
      THEN Thrown("Unable to compress video below target size")
    ELSE [Compressed(orig, v.bestSize, v.bestBitrate, v.bestBuffer)
            EXCEPT !.audioMuted = (v.desiredAudioBitrate = 0)]

\* compressVideo after a search returned: next resolution, or the end.
VideoLadder ==
    /\ pc = "videoLadder"
    /\ LET i == IF vid.i = Null THEN VideoStartIndex(vid.height) ELSE vid.i + 1
       IN  IF vid.bestBitrate = Null /\ i < Len(RESOLUTION_STEPS)
             THEN LET resolution == RESOLUTION_STEPS[i + 1]
                      maxBitrate == FloorDiv(
                          vid.originalBitrate * resolution.height * resolution.height,
                          vid.height * vid.height)
                      minBitrate == Max(8, FloorDiv(vid.targetVideoBitrate * 7, 10))
                      newStartBitrate ==
                          Max(minBitrate, Min(maxBitrate, vid.targetVideoBitrate))
                      newWidth == FloorDiv(vid.width * resolution.height, vid.height)
                  IN  /\ vid' = VideoSearchEntry(vid, i, newStartBitrate, minBitrate,
                                                 maxBitrate, newWidth, resolution.height)
                      /\ pc' = "videoFirst"
                      /\ result' = result
             ELSE /\ Return(VideoSelect(vid, originalSize))
                  /\ vid' = vid
    /\ UNCHANGED <<requestVars, img, gif, aud, trials, rungs, probes, failed,
                   http, tempFiles, uploadVars, clientVars>>

----------------------------------------------------------------------------
\* compressAudio and its binarySearchBitrate

MIN_BITRATE == 32
AudioMaxAttempts == 8

AudInit ==
    [originalBitrate |-> 0, minBitrate |-> 0, maxBitrate |-> 0,
     bestBitrate |-> Null, bestSize |-> Infinity, bestBuffer |-> Null,
     dataPoints |-> <<>>, currentBitrate |-> 0, attempt |-> 0]

\* Math.max(MIN_BITRATE, Math.min(originalBitrate,
\*          Math.floor(originalBitrate * reductionRatio)))
AudioStartBitrate(originalBitrate, t, orig) ==
    Max(MIN_BITRATE, Min(originalBitrate, FloorDiv(originalBitrate * t, orig)))

\* The bitrate the loop computes for its next encode, before the clamp.  A
\* zero size difference makes `rate` a zero with the sign of the bitrate
\* difference, and the quotient neededDiff / rate +-Infinity.
AudioNextBitrate(v, t) ==
    IF Len(v.dataPoints) >= 2
      THEN LET p1 == LastTwo(v.dataPoints)[1]
               p2 == LastTwo(v.dataPoints)[2]
               bitrateDiff == IF p2.param - p1.param = 0 THEN 1
                              ELSE p2.param - p1.param
               sizeDiff == p2.size - p1.size
               neededDiff == t - p2.size
           IN  IF sizeDiff = 0
                 THEN IF (neededDiff > 0) = (bitrateDiff > 0)
                        THEN Infinity ELSE -Infinity
                 ELSE p2.param + Round(neededDiff * bitrateDiff, sizeDiff)
      ELSE FloorDiv(v.minBitrate + v.maxBitrate, 2)

\* Variant: compressAudio without its minimal-improvement test.
AudioSelectNoFloor(v, orig) ==
    IF v.bestBuffer = Null \/ v.bestBitrate = Null
      THEN Original(orig)
      ELSE Compressed(orig, v.bestSize, v.bestBitrate, v.bestBuffer)

\* The end of compressAudio: original, or the best candidate.
AudioSelect(v, orig) ==
    IF v.bestBuffer = Null \/ v.bestBitrate = Null \/ 100 * v.bestSize >= 98 * orig
      THEN Original(orig)
      ELSE Compressed(orig, v.bestSize, v.bestBitrate, v.bestBuffer)

\* Entry of compressAudio up to the metadata probe.
CompressAudio(orig, target) ==
    LET t == ActualTarget(target) IN
    /\ media' = "audio"
    /\ originalSize' = orig
    /\ targetSizeBytes' = target
    /\ IF orig <= t
         THEN Return(Original(orig))
         ELSE /\ pc' = "audioProbe"
              /\ result' = result
    /\ UNCHANGED <<img, gif, vid, aud, trials, rungs, probes, failed, http,
                   tempFiles, uploadVars, clientVars>>

\* getAudioMetadata resolves; the search starts.
AudioProbe(originalBitrate) ==
    /\ pc = "audioProbe"
    /\ aud' = [AudInit EXCEPT
                 !.originalBitrate = originalBitrate,
                 !.minBitrate = MIN_BITRATE,
                 !.maxBitrate = originalBitrate,
                 !.currentBitrate =
                    AudioStartBitrate(originalBitrate,
                                      ActualTarget(targetSizeBytes), originalSize)]
    /\ probes' = probes + 1
    /\ pc' = "audioEncode"
    /\ UNCHANGED <<requestVars, img, gif, vid, trials, rungs, failed, result,
                   http, tempFiles, uploadVars, clientVars>>

\* One iteration of the loop: the encode returns size s.
AudioTrial ==
    /\ pc = "audioEncode"
    /\ \E s \in StreamSizes(ActualTarget(targetSizeBytes), originalSize) :
         LET t == ActualTarget(targetSizeBytes)
             n == Len(trials) + 1
             cur == aud.currentBitrate
             under == s <= t
             better == under /\ (aud.bestBitrate = Null \/ s > aud.bestSize)
             close == under /\ WithinOnePercentBelow(s, t)
             v == [aud EXCEPT
                     !.dataPoints = Append(@, Point(cur, s)),
                     !.bestBitrate = IF better THEN cur ELSE @,
                     !.bestSize = IF better THEN s ELSE @,
                     !.bestBuffer = IF better THEN n ELSE @,
                     !.minBitrate = IF under /\ ~close
                                      THEN Min(aud.maxBitrate, cur + 16) ELSE @,
                     !.maxBitrate = IF under THEN @
                                      ELSE Max(aud.minBitrate, cur - 16),
                     !.attempt = @ + 1]
             nextBitrate ==
                 Max(v.minBitrate, Min(v.maxBitrate, AudioNextBitrate(v, t)))
         IN  /\ trials' = Append(trials, Trial(cur, s, "attempt"))
             /\ IF \/ close
                   \/ Abs(cur - nextBitrate) < 8
                   \/ v.attempt >= AudioMaxAttempts
                  THEN /\ aud' = v
                       /\ Return(AudioSelect(v, originalSize))
                       /\ tempFiles' = {}
                  ELSE /\ aud' = [v EXCEPT !.currentBitrate = nextBitrate]
                       /\ pc' = "audioEncode"
                       /\ result' = result
                       /\ tempFiles' = tempFiles \cup
                                          {TempPath("tmp", aud.attempt)}
    /\ UNCHANGED <<requestVars, img, gif, vid, rungs, probes, failed, http,
                   uploadVars, clientVars>>

----------------------------------------------------------------------------
\* A failing encode, and the /compress route around the compressors.

EncodePcs ==
    {"imageFirst", "imageAttempt", "imageNudge",
     "gifFirst", "gifAttempt", "gifNudge",
     "videoFirst", "videoAttempt", "videoNudge",
     "audioEncode"}

EncodeError(m) ==
    IF m = "gif" THEN "Gifsicle compression failed"
    ELSE IF m = "video" THEN "FFmpeg encoding failed"
    ELSE IF m = "audio" THEN "FFmpeg audio encode failed"
    ELSE "sharp failed"

\* Variant: the failure of an encode is caught inside the search and the
\* encode is run again.
EncodeFailsIsCaught ==
    /\ pc \in EncodePcs
    /\ failed' = TRUE
    /\ UNCHANGED <<pc, requestVars, img, gif, vid, aud, trials, rungs, probes,
                   result, http, tempFiles, uploadVars, clientVars>>

\* The external encoder fails: compressAtQuality / compressAtLossy /
\* encodeVideo / encodeAudio reject, no caller inside the compressor catches,
\* and the compressor rejects with that error.  On the way out the catch of
\* compressAtLossy unlinks its output, and the finally block of a bitrate
\* search unlinks every path of tempFiles.
EncodeFails ==
    /\ pc \in EncodePcs
    /\ failed' = TRUE
    /\ tempFiles' = {}
    /\ Return(Thrown(EncodeError(media)))
    /\ UNCHANGED <<requestVars, img, gif, vid, aud, trials, rungs, probes,
                   http, uploadVars, clientVars>>

\* What getVideoMetadata / getAudioMetadata reject with: the error of
\* ffprobe, or the missing stream.
ProbeErrors(m) ==
    IF m = "video" THEN {"ffprobe failed", "No video stream found"}
    ELSE {"ffprobe failed", "No audio stream found"}

\* Variant: the rejection of the probe is recorded and the search starts on
\* empty metadata.
GetMetadataFailsSearchGoesOn ==
    /\ pc \in {"videoProbe", "audioProbe"}
    /\ \E msg \in ProbeErrors(media) : result' = Thrown(msg)
    /\ pc' = IF media = "video" THEN "videoFirst" ELSE "audioEncode"
    /\ UNCHANGED <<requestVars, img, gif, vid, aud, trials, rungs, probes,
                   failed, http, tempFiles, uploadVars, clientVars>>

\* The metadata probe rejects; compressVideo / compressAudio await it
\* outside any try block and reject with its error.
GetMetadataFails ==
    /\ pc \in {"videoProbe", "audioProbe"}
    /\ \E msg \in ProbeErrors(media) : Return(Thrown(msg))
    /\ UNCHANGED <<requestVars, img, gif, vid, aud, trials, rungs, probes,
                   failed, http, tempFiles, uploadVars, clientVars>>

\* router.post('/compress') after the compressor settled: 200 with the
\* result, or the catch block's 500.
RouteRespond ==
    /\ pc = "returned"
    /\ media \in {"image", "gif", "video"}
    /\ http' = IF result.kind = "ok" THEN 200 ELSE 500
    /\ pc' = "done"
    /\ UNCHANGED <<requestVars, img, gif, vid, aud, trials, rungs, probes,
                   failed, result, tempFiles, uploadVars, clientVars>>

\* if (result.<field>): null and 0 are falsy.
Truthy(x) == x # Null /\ x # 0

\* The names of the headers the route sets on a 200 response.
ResponseHeaders(m, res) ==
    {"Content-Type", "Content-Disposition", "X-Original-Size",
     "X-Compressed-Size", "X-Was-Compressed"}
    \cup (IF m = "image" /\ Truthy(res.param) THEN {"X-Quality"} ELSE {})
    \cup (IF m = "gif" /\ Truthy(res.param) THEN {"X-Lossy-Level"} ELSE {})
    \cup (IF m = "gif" /\ res.wasCompressed THEN {"X-Colors"} ELSE {})
    \cup (IF m = "video" /\ Truthy(res.param) THEN {"X-Bitrate"} ELSE {})
    \cup (IF m = "video" /\ res.wasCompressed   \* audioMuted !== undefined
            THEN {"X-Audio-Muted"} ELSE {})

\* The headers the client reads from a 200 response.
ClientReadsHeaders ==
    {"Content-Disposition", "X-Original-Size", "X-Compressed-Size",
     "X-Was-Compressed", "X-Audio-Muted", "X-Resolution-Reduced",
     "X-Original-Resolution", "X-Final-Resolution"}

----------------------------------------------------------------------------
\* Requests.

\* parseInt(targetSizeBytes) is passed on as it is: zero included.
TargetSizes == {TargetMiB * MiB, TinyTarget, 0}

\* Files under the effective target, exactly at it, just over it, and well
\* over it.
SmallFiles(target) ==
    { s \in {target - 2 * MiB, ActualTarget(target), ActualTarget(target) + 3} :
        s > 0 }

\* Sizes of the uploads.  Where the code divides by the size of the input
\* the sizes are kept positive (the division would give Infinity or NaN);
\* an empty upload is an image under a target that covers the margin, which
\* the code answers before any arithmetic.
Positive(S) == { s \in S : s > 0 }
EmptyUpload(target) == IF ActualTarget(target) >= 0 THEN {0} ELSE {}

ImageOriginalSizes(target) ==
    SmallFiles(target) \cup EmptyUpload(target) \cup
        Positive({target + 5 * MiB, target + 15 * MiB, 6 * target})
GifOriginalSizes(target) ==
    SmallFiles(target) \cup Positive({target + 2 * MiB, 4 * target})
VideoOriginalSizes(target) ==
    SmallFiles(target) \cup Positive({target + 2 * MiB, 6 * target})
AudioOriginalSizes(target) ==
    SmallFiles(target) \cup Positive({target + 2 * MiB, 4 * target})

VideoMetadata ==
    { [duration |-> 300, originalBitrate |-> 1600, width |-> 1280, height |-> 720],
      [duration |-> 300, originalBitrate |-> 1600, width |-> 2560, height |-> 1440],
      [duration |-> 300, originalBitrate |-> 1600, width |-> 854, height |-> 480] }
AudioBitrates == {20, 128, 320}

\* POST /compress with an image, a GIF or a video; compressAudio is exported
\* for a caller of its own.
PostImage ==
    /\ pc = "idle"
    /\ \E target \in TargetSizes :
         \E orig \in ImageOriginalSizes(target) : CompressImage(orig, target)

PostGif ==
    /\ pc = "idle"
    /\ \E target \in TargetSizes :
         \E orig \in GifOriginalSizes(target) : CompressGif(orig, target)

PostVideo ==
    /\ pc = "idle"
    /\ \E target \in TargetSizes :
         \E orig \in VideoOriginalSizes(target) : CompressVideo(orig, target)

CallCompressAudio ==
    /\ pc = "idle"
    /\ \E target \in TargetSizes :
         \E orig \in AudioOriginalSizes(target) : CompressAudio(orig, target)

\* The fileFilter of the upload refuses the file (a type that is neither
\* an allowed image nor an allowed video): the handler is never entered and
\* the error goes to the framework's error handler.
PostUnsupported ==
    /\ pc = "idle"
    /\ result' = Thrown("Unsupported file type")
    /\ http' = 500
    /\ pc' = "done"
    /\ UNCHANGED <<requestVars, img, gif, vid, aud, trials, rungs, probes,
                   failed, tempFiles, uploadVars, clientVars>>

\* The request carries no file: 400 before anything else.
PostNoFile ==
    /\ pc = "idle"
    /\ result' = Thrown("No file uploaded")
    /\ http' = 400
    /\ pc' = "done"
    /\ UNCHANGED <<requestVars, img, gif, vid, aud, trials, rungs, probes,
                   failed, tempFiles, uploadVars, clientVars>>

GetVideoMetadata == \E m \in VideoMetadata : VideoProbe(m)

GetAudioMetadata == \E b \in AudioBitrates : AudioProbe(b)

----------------------------------------------------------------------------
\* Two video requests served at the same time by the one Node process, and
\* the paths they use in the tmp directory.  One encode stands for the
\* trials of a request; every trial path is the input path plus a suffix.

MaxClock == 601001

\* src/server/routes/compress.js:240
CleanupDelay == 1000

\* src/unnamed/part_002:450 (10 minutes)
TimeoutDuration == 600000

Requests == {1, 2}

\* path: the Date.now() of tmpFilePath; input: whose upload the encoder
\* read; got: whose output the compressor read back; sentAt: when the
\* response was sent.  Null: not yet.  aborted: the client's timeout has
\* fired and aborted the request.
IdleRequest ==
    [pc |-> "idle", path |-> Null, input |-> Null, got |-> Null,
     sentAt |-> Null, aborted |-> FALSE]

IsFile(f, base, suffix) == f.base = base /\ f.suffix = suffix

\* fs.existsSync
Exists(base, suffix) == \E f \in files : IsFile(f, base, suffix)

\* Whose data the file holds; 0 when there is no such file.
Data(base, suffix) ==
    IF Exists(base, suffix)
      THEN (CHOOSE f \in files : IsFile(f, base, suffix)).data
      ELSE 0

\* fs.unlinkSync / unlinkAsync behind fs.existsSync
Unlink(base, suffix) == { f \in files : ~IsFile(f, base, suffix) }

\* fs.writeFileSync, or the output of an encoder: replaces what is there
WriteFile(base, suffix, data) ==
    Unlink(base, suffix) \cup {[base |-> base, suffix |-> suffix, data |-> data]}

\* The handler starts: tmpFilePath is `temp-${Date.now()}`, the upload is
\* written there, and compressVideo runs up to its first await.
Upload(r) ==
    /\ reqs[r].pc = "idle"
    /\ reqs' = [reqs EXCEPT ![r].pc = "written", ![r].path = now]
    /\ files' = WriteFile(now, "", r)
    /\ UNCHANGED <<now, compressVars, clientVars>>

\* encodeVideo starts ffmpeg on the input path with `${filePath}.tmp1.mp4`
\* as output; with no input file ffmpeg fails and the route's catch answers.
EncodeVideoRun(r) ==
    /\ reqs[r].pc = "written"
    /\ LET input == Data(reqs[r].path, "")
       IN  IF input = 0
             THEN /\ reqs' = [reqs EXCEPT ![r].pc = "failed", ![r].input = 0]
                  /\ files' = files
             ELSE /\ reqs' = [reqs EXCEPT ![r].pc = "encoding",
                                          ![r].input = input]
                  /\ files' = WriteFile(reqs[r].path, "tmp1", r)
    /\ UNCHANGED <<now, compressVars, clientVars>>

\* ffmpeg ends: the output is read back, the search returns and its finally
\* block unlinks the trial path; a missing output makes the read throw and
\* the route's catch unlinks the input.
EncodeVideoEnd(r) ==
    /\ reqs[r].pc = "encoding"
    /\ LET got == Data(reqs[r].path, "tmp1")
       IN  IF got = 0
             THEN /\ reqs' = [reqs EXCEPT ![r].pc = "failed", ![r].got = 0]
                  /\ files' = Unlink(reqs[r].path, "")
             ELSE /\ reqs' = [reqs EXCEPT ![r].pc = "respond", ![r].got = got]
                  /\ files' = Unlink(reqs[r].path, "tmp1")
    /\ UNCHANGED <<now, compressVars, clientVars>>

\* res.send, and the cleanup timer is set.
Respond(r) ==
    /\ reqs[r].pc = "respond"
    /\ reqs' = [reqs EXCEPT ![r].pc = "sent", ![r].sentAt = now]
    /\ UNCHANGED <<now, files, compressVars, clientVars>>

\* Variant: the timer fires and leaves the input file.
CleanupTimerKeepsFile(r) ==
    /\ reqs[r].pc = "sent"
    /\ now >= reqs[r].sentAt + CleanupDelay
    /\ reqs' = [reqs EXCEPT ![r].pc = "cleaned"]
    /\ UNCHANGED <<now, files, compressVars, clientVars>>

\* The timer fires: the input path is unlinked if it exists.
CleanupTimer(r) ==
    /\ reqs[r].pc = "sent"
    /\ now >= reqs[r].sentAt + CleanupDelay
    /\ reqs' = [reqs EXCEPT ![r].pc = "cleaned"]
    /\ files' = Unlink(reqs[r].path, "")
    /\ UNCHANGED <<now, compressVars, clientVars>>

\* The client's timeout fires while the request is with the server:
\* xhr.abort().  The route registers no handler for a closed connection and
\* keeps no handle on the encoder, so nothing changes on the server.
ClientTimeout(r) ==
    /\ reqs[r].pc \in {"written", "encoding", "respond"}
    /\ ~reqs[r].aborted
    /\ now >= reqs[r].path + TimeoutDuration
    /\ reqs' = [reqs EXCEPT ![r].aborted = TRUE]
    /\ UNCHANGED <<now, files, compressVars, clientVars>>

\* The instants at which the server is observed: the start, a millisecond
\* later, the cleanup delay after either, and the same around the client's
\* timeout.
Instants ==
    { t \in {1, CleanupDelay, CleanupDelay + 1, 2 * CleanupDelay + 1,
              TimeoutDuration, TimeoutDuration + 1,
              TimeoutDuration + CleanupDelay + 1} :
        t <= MaxClock }

\* The instants at which a pending cleanup timer expires.
TimerInstants ==
    { reqs[r].sentAt + CleanupDelay : r \in { q \in Requests : reqs[q].pc = "sent" } }

\* Time passes, up to a later instant or to the expiry of a timer.
Tick ==
    /\ \E t \in Instants \cup TimerInstants :
         /\ t > now
         /\ now' = t
    /\ UNCHANGED <<reqs, files, compressVars, clientVars>>

-----------------------------------------------------------------------------
\* The browser side: the strategies of src/lib/compressionStrategies.ts.
\* Sizes are in the unit of the server model, qualities in hundredths and
\* the warning threshold in percent.

QUALITY_WARNING_THRESHOLD == 70
MIN_QUALITY == 50
MAX_ITERATIONS == 10
qualityStep == 5

\* Two 'compress' messages may be in the worker at once; each runs its own
\* call of a strategy.  A direct call of a strategy uses the first.
Calls == {1, 2}
DirectCall == CHOOSE c \in Calls : \A d \in Calls : c <= d

ProgressMessage(p) == [type |-> "progress", progress |-> p]
TerminalMessage(type) == [type |-> type, progress |-> Null]

\* CompressionResult: the file by its size and whether it is the File object
\* that was passed in, and the warning by its leading words ("undefined" when
\* the property is undefined).
ClientResult(size, isFile, iterations, warning) ==
    [size |-> size, fileIsOriginal |-> isFile, wasCompressed |-> ~isFile,
     iterations |-> iterations, warning |-> warning]
NoClientResult ==
    [size |-> 0, fileIsOriginal |-> TRUE, wasCompressed |-> FALSE,
     iterations |-> 0, warning |-> "none"]

\* The locals of one call; maxUnder is the largest trial output that was at
\* or under the target (a history variable, Null while there is none).
StratIdle ==
    [fn |-> "none", pc |-> "idle", fileSize |-> 0, target |-> 0,
     bestSize |-> 0, bestIsFile |-> TRUE, quality |-> 0, iterations |-> 0,
     hasUnderTargetResult |-> FALSE, maxUnder |-> Null,
     result |-> NoClientResult]

\* compressionRatio > QUALITY_WARNING_THRESHOLD, with
\* compressionRatio = 1 - size / file.size.
HighRatio(size, fileSize) ==
    100 * (fileSize - size) > QUALITY_WARNING_THRESHOLD * fileSize

\* The strategies of compressGIF as <<lossy, scale in percent>>.
Phase1 == << <<50, Null>>, <<80, Null>>, <<110, Null>>, <<140, Null>> >>
Phase2 ==
    << <<140, 95>>, <<170, 95>>, <<170, 90>>, <<200, 90>>, <<200, 85>>,
       <<230, 85>>, <<230, 80>>, <<260, 80>>, <<260, 75>>, <<290, 75>> >>
Phase3 ==
    << <<290, 70>>, <<320, 70>>, <<350, 65>>, <<380, 65>>, <<400, 60>>,
       <<450, 60>>, <<450, 55>>, <<500, 55>> >>
Phase4 ==
    << <<500, 50>>, <<600, 50>>, <<700, 45>>, <<800, 40>>, <<900, 35>>,
       <<1000, 30>>, <<1100, 25>>, <<1200, 20>> >>

startPhase(fileSize) ==
    IF fileSize >= 30 * MiB THEN 4 ELSE IF fileSize >= 20 * MiB THEN 3 ELSE 1

compressionStrategies(fileSize) ==
    (IF startPhase(fileSize) <= 1 THEN Phase1 ELSE <<>>)
    \o (IF startPhase(fileSize) <= 2 THEN Phase2 ELSE <<>>)
    \o (IF startPhase(fileSize) <= 3 THEN Phase3 ELSE <<>>)
    \o Phase4

\* The files and targets the strategies are called with, the outputs the
\* two libraries may produce, and the progress the image library reports
\* when a run ends.
ClientTargets == {TargetMiB * MiB}
ClientFileSizes ==
    {TargetMiB * MiB - MiB, TargetMiB * MiB, TargetMiB * MiB + NearStep,
     20 * MiB, 30 * MiB + NearStep}
ClientSizes(fileSize, t) ==
    {t \div 2, CeilDiv(85 * t, 100) - 1, CeilDiv(85 * t, 100), t,
     t + NearStep, fileSize}
LibraryProgress == {100}

\* The synchronous head of a strategy: a file at or under the target is
\* returned at once, and so is every video.
StrategyEntry(fn, fileSize, t) ==
    IF fileSize <= t
    THEN [StratIdle EXCEPT !.fn = fn, !.pc = "returned",
                           !.fileSize = fileSize, !.target = t,
                           !.bestSize = fileSize,
                           !.result = ClientResult(fileSize, TRUE, 0,
                                                   "already under")]
    ELSE IF fn = "compressVideo"
    THEN [StratIdle EXCEPT !.fn = fn, !.pc = "returned",
                           !.fileSize = fileSize, !.target = t,
                           !.bestSize = fileSize,
                           !.result = ClientResult(fileSize, TRUE, 0,
                                                   "not yet implemented")]
    ELSE [StratIdle EXCEPT !.fn = fn, !.pc = "loop",
                           !.fileSize = fileSize, !.target = t,
                           !.bestSize = fileSize, !.quality = 100]

EntryProgress(fn, fileSize, t) ==
    IF fileSize <= t THEN <<ProgressMessage(100)>>
    ELSE IF fn = "compressVideo" THEN <<ProgressMessage(50)>>
    ELSE <<>>

\* Call c enters strategy fn; before is what the caller posted earlier in
\* the same step.
Enter(c, fn, fileSize, t, before) ==
    /\ strat[c].pc = "idle"
    /\ strat' = [strat EXCEPT ![c] = StrategyEntry(fn, fileSize, t)]
    /\ posted' = [posted EXCEPT
                    ![c] = @ \o before \o EntryProgress(fn, fileSize, t)]

CallCompressImage(c) ==
    /\ \E fileSize \in ClientFileSizes, t \in ClientTargets :
         Enter(c, "compressImage", fileSize, t, <<>>)
    /\ UNCHANGED <<worker, tool, compressVars, uploadVars>>

CallCompressGIF(c) ==
    /\ \E fileSize \in ClientFileSizes, t \in ClientTargets :
         Enter(c, "compressGIF", fileSize, t, <<>>)
    /\ UNCHANGED <<worker, tool, compressVars, uploadVars>>

CallCompressVideo(c) ==
    /\ \E fileSize \in ClientFileSizes, t \in ClientTargets :
         Enter(c, "compressVideo", fileSize, t, <<>>)
    /\ UNCHANGED <<worker, tool, compressVars, uploadVars>>

\* A mutant of ImageReturn: an over-target best file without the warning.
ImageReturnWithoutUnable(s) ==
    ClientResult(s.bestSize, s.bestIsFile, s.iterations,
                 IF s.bestSize <= s.target
                    /\ HighRatio(s.bestSize, s.fileSize)
                 THEN "High compression ratio" ELSE "undefined")

\* compressImage after its loop: the best file and its warning.
ImageReturn(s) ==
    ClientResult(s.bestSize, s.bestIsFile, s.iterations,
                 IF s.bestSize > s.target THEN "Unable to reach target size"
                 ELSE IF HighRatio(s.bestSize, s.fileSize)
                      THEN "High compression ratio"
                      ELSE "undefined")

\* One pass of the while loop of compressImage, with what follows the loop
\* when this pass is the last.
ClientImageIteration(c) ==
    /\ strat[c].fn = "compressImage"
    /\ strat[c].pc = "loop"
    /\ strat[c].iterations < MAX_ITERATIONS
    /\ strat[c].quality >= MIN_QUALITY
    /\ LET s == strat[c]
           t == s.target
           iterations == s.iterations + 1
           \* progressBase + (p / 100) * (70 / MAX_ITERATIONS), with
           \* progressBase = 10 + (iterations / MAX_ITERATIONS) * 70
           Reported(p) ==
               ProgressMessage(Round(1000 * MAX_ITERATIONS + 7000 * iterations
                                     + 70 * p, 100 * MAX_ITERATIONS))
       IN \/ \* imageCompression rejects: break
             LET done == [s EXCEPT !.iterations = iterations]
             IN /\ strat' = [strat EXCEPT
                               ![c] = [done EXCEPT
                                         !.pc = "returned",
                                         !.result = ImageReturn(done)]]
                /\ posted' = [posted EXCEPT
                                ![c] = @ \o <<ProgressMessage(90)>>]
          \/ \E size \in ClientSizes(s.fileSize, t), p \in LibraryProgress :
               LET under == IF size <= t
                            THEN (IF s.maxUnder = Null THEN size
                                  ELSE Max(s.maxUnder, size))
                            ELSE s.maxUnder
                   better == Abs(size - t) < Abs(s.bestSize - t)
                   kept == [s EXCEPT
                              !.iterations = iterations,
                              !.maxUnder = under,
                              !.bestSize = IF better THEN size ELSE @,
                              !.bestIsFile = IF better THEN FALSE ELSE @,
                              !.quality = @ - qualityStep]
                   again == /\ kept.iterations < MAX_ITERATIONS
                            /\ kept.quality >= MIN_QUALITY
               IN IF size <= t /\ 100 * size >= 85 * t
                  THEN /\ strat' =
                            [strat EXCEPT
                               ![c] = [s EXCEPT
                                   !.iterations = iterations,
                                   !.maxUnder = under,
                                   !.bestSize = size,
                                   !.bestIsFile = FALSE,
                                   !.pc = "returned",
                                   !.result =
                                       ClientResult(size, FALSE, iterations,
                                           IF HighRatio(size, s.fileSize)
                                           THEN "High compression ratio"
                                           ELSE "undefined")]]
                       /\ posted' = [posted EXCEPT
                                       ![c] = @ \o <<Reported(p),
                                                     ProgressMessage(90)>>]
                  ELSE IF again
                  THEN /\ strat' = [strat EXCEPT ![c] = kept]
                       /\ posted' = [posted EXCEPT
                                       ![c] = @ \o <<Reported(p)>>]
                  ELSE /\ strat' = [strat EXCEPT
                                      ![c] = [kept EXCEPT
                                                !.pc = "returned",
                                                !.result = ImageReturn(kept)]]
                       /\ posted' = [posted EXCEPT
                                       ![c] = @ \o <<Reported(p),
                                                     ProgressMessage(90)>>]
    /\ UNCHANGED <<worker, tool, compressVars, uploadVars>>

\* compressGIF after its loop.
GifReturn(s) ==
    IF s.bestIsFile
    THEN ClientResult(s.fileSize, TRUE, s.iterations, "Unable to compress GIF")
    ELSE ClientResult(s.bestSize, FALSE, s.iterations,
             IF s.bestSize > s.target THEN "Unable to reach target size"
             ELSE IF 10 * s.bestSize < 8 * s.target
                  THEN "High compression ratio"
                  ELSE IF HighRatio(s.bestSize, s.fileSize)
                       THEN "Moderate compression ratio"
                       ELSE "undefined")

\* One strategy of the for loop of compressGIF, with what follows the loop
\* when it breaks or the strategy is the last.
ClientGifIteration(c) ==
    /\ strat[c].fn = "compressGIF"
    /\ strat[c].pc = "loop"
    /\ strat[c].iterations < Len(compressionStrategies(strat[c].fileSize))
    /\ LET s == strat[c]
           t == s.target
           length == Len(compressionStrategies(s.fileSize))
           iterations == s.iterations + 1
           reported ==
               ProgressMessage(Round(10 * length + 70 * iterations, length))
           Finish(next, break) ==
               IF break \/ iterations = length
               THEN /\ strat' = [strat EXCEPT
                                   ![c] = [next EXCEPT
                                             !.pc = "returned",
                                             !.result = GifReturn(next)]]
                    /\ posted' = [posted EXCEPT
                                    ![c] = @ \o <<reported,
                                                  ProgressMessage(90)>>]
               ELSE /\ strat' = [strat EXCEPT ![c] = next]
                    /\ posted' = [posted EXCEPT ![c] = @ \o <<reported>>]
       IN \/ \* gifsicle.run rejects, or resolves with no output
             Finish([s EXCEPT !.iterations = iterations], FALSE)
          \/ \E size \in ClientSizes(s.fileSize, t) :
               IF size <= t
               THEN IF ~s.hasUnderTargetResult
                    THEN Finish([s EXCEPT !.iterations = iterations,
                                          !.maxUnder = size,
                                          !.bestSize = size,
                                          !.bestIsFile = FALSE,
                                          !.hasUnderTargetResult = TRUE],
                                TRUE)
                    ELSE Finish([s EXCEPT
                                   !.iterations = iterations,
                                   !.maxUnder = Max(@, size),
                                   !.bestSize = IF size > @ THEN size ELSE @],
                                FALSE)
               ELSE IF ~s.hasUnderTargetResult
                       /\ Abs(size - t) < Abs(s.bestSize - t)
                    THEN Finish([s EXCEPT !.iterations = iterations,
                                          !.bestSize = size,
                                          !.bestIsFile = FALSE], FALSE)
                    ELSE Finish([s EXCEPT !.iterations = iterations], FALSE)
    /\ UNCHANGED <<worker, tool, compressVars, uploadVars>>

-----------------------------------------------------------------------------
\* The browser side: validateFile of src/lib/fileValidator.ts and the
\* compression worker.

BLOCKED_EXTENSIONS ==
    {"exe", "msi", "zip", "rar", "7z", "dmg", "pkg", "deb", "apk", "jar",
     "dll", "tar", "gz", "bz2", "xz", "iso", "bin", "bat", "cmd", "sh",
     "app", "com", "scr", "vbs", "js", "jse", "ipa", "db", "sqlite", "mdb",
     "accdb", "m4p", "vob", "cr2", "nef", "arw", "psd", "ai", "blend",
     "fbx", "obj", "stl", "indd", "pdf", "doc", "docx", "xls", "xlsx",
     "ppt", "pptx", "mp3", "wav", "ogg", "flac", "m4a", "aac"}

BLOCKED_MIME_TYPES ==
    {"application/x-msdownload", "application/x-msdos-program",
     "application/zip", "application/x-rar-compressed",
     "application/x-7z-compressed", "application/x-tar",
     "application/gzip", "application/x-bzip2", "application/x-executable",
     "application/x-sharedlib", "application/java-archive",
     "application/pdf", "application/msword",
     "application/vnd.openxmlformats-officedocument.wordprocessingml.document",
     "audio/mpeg", "audio/wav", "audio/ogg"}

\* Object.entries(ALLOWED_CATEGORIES), in the order of the literal.
ALLOWED_CATEGORIES ==
    << [category |-> "image",
        mimeTypes |-> {"image/jpeg", "image/png", "image/webp", "image/avif",
                       "image/tiff", "image/gif"}],
       [category |-> "video",
        mimeTypes |-> {"video/mp4", "video/quicktime", "video/x-msvideo",
                       "video/webm", "video/x-matroska", "video/x-flv",
                       "video/mp2t", "video/x-ms-wmv", "video/3gpp",
                       "video/3gpp2"}] >>

\* A File by its extension, the MIME type file-type finds in its bytes
\* ("undetermined" when it finds none), whether its bytes can be read, and
\* its size.  A Blob has no name; undefined stands for a message without a
\* file.
NoFile ==
    [kind |-> "undefined", extension |-> "", mime |-> "undetermined",
     readable |-> FALSE, size |-> 0]

Invalid == [isValid |-> FALSE, category |-> "none"]

validateFile(file) ==
    IF file.extension \in BLOCKED_EXTENSIONS THEN Invalid
    ELSE IF ~file.readable THEN Invalid
    ELSE IF file.mime = "undetermined" THEN Invalid
    ELSE IF file.mime \in BLOCKED_MIME_TYPES THEN Invalid
    ELSE IF \E i \in DOMAIN ALLOWED_CATEGORIES :
                file.mime \in ALLOWED_CATEGORIES[i].mimeTypes
         THEN LET first == CHOOSE i \in DOMAIN ALLOWED_CATEGORIES :
                      /\ file.mime \in ALLOWED_CATEGORIES[i].mimeTypes
                      /\ \A j \in DOMAIN ALLOWED_CATEGORIES :
                           file.mime \in ALLOWED_CATEGORIES[j].mimeTypes
                               => i <= j
              IN [isValid |-> TRUE,
                  category |-> ALLOWED_CATEGORIES[first].category]
         ELSE Invalid

\* The switch of the worker on validation.category.
Dispatch(category) ==
    CASE category = "image" -> "compressImage"
      [] category = "gif" -> "compressGIF"
      [] category = "video" -> "compressVideo"
      [] OTHER -> "throw"

WorkerFileTypes ==
    { <<"jpg", "image/jpeg">>, <<"gif", "image/gif">>, <<"mp4", "video/mp4">>,
      <<"exe", "application/x-msdownload">>, <<"dat", "application/zip">>,
      <<"raw", "undetermined">>, <<"aiff", "audio/aiff">> }

WorkerFiles ==
    { [kind |-> "File", extension |-> ft[1], mime |-> ft[2],
       readable |-> TRUE, size |-> size] :
        ft \in WorkerFileTypes,
        size \in {TargetMiB * MiB - MiB, TargetMiB * MiB + NearStep} }
    \cup { [kind |-> "File", extension |-> "png", mime |-> "image/png",
            readable |-> FALSE, size |-> TargetMiB * MiB + NearStep],
           [kind |-> "Blob", extension |-> "", mime |-> "image/png",
            readable |-> TRUE, size |-> TargetMiB * MiB + NearStep] }

\* event.data of the messages the worker receives.
WorkerRequests ==
    { [type |-> "compress", file |-> f, targetSizeBytes |-> t] :
        f \in WorkerFiles \cup {NoFile}, t \in ClientTargets }
    \cup { [type |-> "cancel", file |-> NoFile, targetSizeBytes |-> 0] }

WorkerIdle ==
    [pc |-> "idle",
     data |-> [type |-> "none", file |-> NoFile, targetSizeBytes |-> 0],
     category |-> "none"]

\* self.onmessage up to its first await: any other type returns; a message
\* without a file throws in the first statement of the try block.
WorkerReceive(m) ==
    /\ worker[m].pc = "idle"
    /\ \E data \in WorkerRequests :
         IF data.type # "compress"
         THEN /\ worker' = [worker EXCEPT ![m] = [@ EXCEPT !.pc = "returned",
                                                           !.data = data]]
              /\ posted' = posted
         ELSE IF data.file.kind = "undefined"
         THEN /\ worker' = [worker EXCEPT ![m] = [@ EXCEPT !.pc = "returned",
                                                           !.data = data]]
              /\ posted' = [posted EXCEPT
                              ![m] = @ \o <<TerminalMessage("error")>>]
         ELSE /\ worker' = [worker EXCEPT ![m] = [@ EXCEPT !.pc = "validating",
                                                           !.data = data]]
              /\ posted' = [posted EXCEPT
                              ![m] = @ \o <<ProgressMessage(5)>>]
    /\ UNCHANGED <<strat, tool, compressVars, uploadVars>>

\* A mutant of WorkerComplete: the result without the progress of 100.
WorkerCompleteWithoutProgress(m) ==
    /\ worker[m].pc = "compressing"
    /\ strat[m].pc = "returned"
    /\ worker' = [worker EXCEPT ![m].pc = "returned"]
    /\ posted' = [posted EXCEPT ![m] = @ \o <<TerminalMessage("complete")>>]
    /\ UNCHANGED <<strat, tool, compressVars, uploadVars>>

\* The strategy has returned: progress 100 and the result, in one step.
WorkerComplete(m) ==
    /\ worker[m].pc = "compressing"
    /\ strat[m].pc = "returned"
    /\ worker' = [worker EXCEPT ![m].pc = "returned"]
    /\ posted' = [posted EXCEPT
                    ![m] = @ \o <<ProgressMessage(100),
                                  TerminalMessage("complete")>>]
    /\ UNCHANGED <<strat, tool, compressVars, uploadVars>>

\* validateFile has settled: it rejects for a Blob (file.name is undefined),
\* otherwise the worker posts the validation error or dispatches on the
\* category, up to the first await of the strategy.
WorkerValidated(m) ==
    /\ worker[m].pc = "validating"
    /\ LET data == worker[m].data
           validation == validateFile(data.file)
           fn == Dispatch(validation.category)
           Ends(messages) ==
               /\ worker' = [worker EXCEPT ![m].pc = "returned"]
               /\ posted' = [posted EXCEPT ![m] = @ \o messages]
               /\ strat' = strat
       IN IF data.file.kind = "Blob"
          THEN Ends(<<TerminalMessage("error")>>)
          ELSE IF ~validation.isValid
          THEN Ends(<<TerminalMessage("validation_error")>>)
          ELSE IF fn = "throw"
          THEN Ends(<<ProgressMessage(10), TerminalMessage("error")>>)
          ELSE /\ worker' = [worker EXCEPT
                               ![m] = [@ EXCEPT
                                         !.pc = "compressing",
                                         !.category = validation.category]]
               /\ Enter(m, fn, data.file.size, data.targetSizeBytes,
                        <<ProgressMessage(10)>>)
    /\ UNCHANGED <<tool, compressVars, uploadVars>>

-----------------------------------------------------------------------------
\* The browser side: compressFile of CompressorTool and the timers and XHR
\* listeners it installs.  currentProgress is in tenths of a percent.

UPLOAD_QUIPS ==
    <<"UPLOADING FILE", "TRANSFERRING DATA", "SENDING TO SERVER",
      "PREPARING FILE">>

COMPRESSION_QUIPS ==
    <<"SQUEEZING PIXELS", "NEGOTIATING WITH BYTES",
      "APPLYING COMPRESSION MAGIC", "OPTIMIZING QUALITY",
      "FINDING THE SWEET SPOT", "BINARY SEARCH IN PROGRESS",
      "TESTING COMPRESSION LEVELS", "CALCULATING OPTIMAL QUALITY",
      "SHRINKING RESPONSIBLY", "REDUCING FILE SIZE",
      "ANALYZING COMPRESSION RATIO", "BALANCING QUALITY VS SIZE",
      "RUNNING LOSSY ALGORITHMS", "EXTRAPOLATING RESULTS",
      "ADJUSTING PARAMETERS", "COMPRESSING FRAMES",
      "OPTIMIZING COLOR PALETTE", "MINIMIZING REDUNDANCY">>

FINISHING_QUIPS ==
    <<"ALMOST THERE", "FINALIZING COMPRESSION", "WRAPPING UP",
      "FINAL TOUCHES", "PACKAGING RESULTS", "PREPARING DOWNLOAD">>

getCurrentQuips(currentPhase) ==
    IF currentPhase = "upload" THEN UPLOAD_QUIPS
    ELSE IF currentPhase = "compression" THEN COMPRESSION_QUIPS
    ELSE FINISHING_QUIPS

\* Math.random() * 2 + 0.5, Math.random() * compressionIncrement + 0.3 and
\* Math.random() * 0.5 + 0.1, each by its least value and one near its
\* upper end, in tenths.
UploadSteps == {5, 24}
CompressionSteps(slow) == IF slow THEN {3, 5} ELSE {3, 17}
FinishingSteps == {1, 5}

\* The statuses a load event may carry.
Statuses == {200, 400, 500}

\* The state of the component and the closure of the latest compressFile:
\* the two interval refs and the timeout are TRUE while the timer is set,
\* event is the terminal event the latest upload has had.
ToolIdle ==
    [isCompressing |-> FALSE, progress |-> 0, currentProgress |-> 0,
     currentPhase |-> "upload", isComplete |-> FALSE,
     progressInterval |-> FALSE, quipInterval |-> FALSE, timeout |-> FALSE,
     xhr |-> "unsent", event |-> "none", quipIndex |-> 0,
     finishingQuipsSeen |-> 0, compressionMessage |-> "",
     slow |-> FALSE, validationError |-> FALSE]

\* What every listener does first: the upload is over and both intervals
\* are cleared.
Ended(t, event) ==
    [t EXCEPT !.timeout = FALSE, !.isComplete = TRUE,
              !.progressInterval = FALSE, !.quipInterval = FALSE,
              !.xhr = "done", !.event = event]

\* compressFile, from the click to xhr.send: the button is disabled while
\* isCompressing, and the server may be known to be offline.  Building the
\* form data may throw, which the catch block handles.
StartUpload ==
    /\ ~tool.isCompressing
    /\ tool.xhr # "sent"
    /\ \E isServerOnline \in BOOLEAN, slow \in BOOLEAN, throws \in BOOLEAN :
         IF ~isServerOnline
         THEN tool' = [tool EXCEPT !.validationError = TRUE]
         ELSE LET started ==
                      [tool EXCEPT
                         !.isCompressing = TRUE, !.progress = 1,
                         !.currentProgress = 10, !.currentPhase = "upload",
                         !.isComplete = FALSE, !.quipIndex = 0,
                         !.finishingQuipsSeen = 0,
                         !.compressionMessage = UPLOAD_QUIPS[1],
                         !.progressInterval = TRUE, !.quipInterval = TRUE,
                         !.slow = slow, !.event = "none",
                         !.validationError = FALSE]
              IN IF throws
                 THEN tool' = [Ended(started, "throw") EXCEPT
                                 !.xhr = "unsent", !.isCompressing = FALSE,
                                 !.validationError = TRUE]
                 ELSE tool' = [started EXCEPT !.timeout = TRUE,
                                              !.xhr = "sent"]
    /\ UNCHANGED <<strat, posted, worker, compressVars, uploadVars>>

\* The callback of the progress interval.
ProgressTick ==
    /\ tool.progressInterval
    /\ IF tool.isComplete
       THEN tool' = tool
       ELSE \E up \in UploadSteps, co \in CompressionSteps(tool.slow),
               fi \in FinishingSteps :
              LET before == tool.currentProgress
                  moved == IF before < 150 THEN before + up
                           ELSE IF before < 850 THEN before + co
                           ELSE IF before < 990 THEN before + fi
                           ELSE before
                  entered == IF before < 150 /\ moved >= 150
                             THEN "compression"
                             ELSE IF before >= 150 /\ before < 850
                                     /\ moved >= 850
                                  THEN "finishing"
                                  ELSE tool.currentPhase
                  capped == IF moved > 990 THEN 990 ELSE moved
              IN tool' = [tool EXCEPT
                            !.currentProgress = capped,
                            !.currentPhase = entered,
                            !.quipIndex =
                                IF entered # tool.currentPhase THEN 0 ELSE @,
                            !.finishingQuipsSeen =
                                IF entered # tool.currentPhase THEN 0 ELSE @,
                            !.progress = capped \div 10]
    /\ UNCHANGED <<strat, posted, worker, compressVars, uploadVars>>

\* The callback of the quip interval.
QuipTick ==
    /\ tool.quipInterval
    /\ LET quips == getCurrentQuips(tool.currentPhase)
       IN IF tool.currentPhase = "finishing"
          THEN IF tool.finishingQuipsSeen >= Len(quips) - 1
               THEN tool' = [tool EXCEPT
                               !.compressionMessage = quips[Len(quips)]]
               ELSE tool' = [tool EXCEPT
                               !.finishingQuipsSeen = @ + 1,
                               !.quipIndex = tool.finishingQuipsSeen + 1,
                               !.compressionMessage =
                                   quips[tool.finishingQuipsSeen + 2]]
          ELSE LET next == (tool.quipIndex + 1) % Len(quips)
               IN tool' = [tool EXCEPT !.quipIndex = next,
                                       !.compressionMessage = quips[next + 1]]
    /\ UNCHANGED <<strat, posted, worker, compressVars, uploadVars>>

\* The load listener: a status of 200 jumps to 100 and hands the result to
\* handleCompressionComplete, whose every path (finalizeCompression, or the
\* catch block) ends in setIsCompressing(false); any other status reports
\* the error.
XhrLoad ==
    /\ tool.xhr = "sent"
    /\ \E status \in Statuses :
         IF status = 200
         THEN tool' = [Ended(tool, "load200") EXCEPT
                         !.progress = 100, !.isCompressing = FALSE]
         ELSE tool' = [Ended(tool, "loadOther") EXCEPT
                         !.isCompressing = FALSE,
                         !.validationError = TRUE]
    /\ UNCHANGED <<strat, posted, worker, compressVars, uploadVars>>

\* A mutant of XhrError: the listener forgets the quip interval.
XhrErrorKeepsQuips ==
    /\ tool.xhr = "sent"
    /\ tool' = [Ended(tool, "error") EXCEPT
                  !.quipInterval = tool.quipInterval,
                  !.isCompressing = FALSE, !.validationError = TRUE]
    /\ UNCHANGED <<strat, posted, worker, compressVars, uploadVars>>

\* The error listener.
XhrError ==
    /\ tool.xhr = "sent"
    /\ tool' = [Ended(tool, "error") EXCEPT
                  !.isCompressing = FALSE, !.validationError = TRUE]
    /\ UNCHANGED <<strat, posted, worker, compressVars, uploadVars>>

\* The abort listener, for an abort that is not the timeout's.
XhrAbort ==
    /\ tool.xhr = "sent"
    /\ tool' = [Ended(tool, "abort") EXCEPT !.isCompressing = FALSE]
    /\ UNCHANGED <<strat, posted, worker, compressVars, uploadVars>>

\* The 10-minute timeout: xhr.abort() runs the abort listener, then the
\* callback clears the intervals itself and reports the timeout.
UploadTimeout ==
    /\ tool.timeout
    /\ tool.xhr = "sent"
    /\ tool' = [Ended(Ended(tool, "abort"), "timeout") EXCEPT
                  !.isCompressing = FALSE, !.validationError = TRUE]
    /\ UNCHANGED <<strat, posted, worker, compressVars, uploadVars>>

\* proceedWithFileSelection and handleFileClear: setProgress(0).
SelectFile ==
    /\ tool.progress # 0
    /\ tool' = [tool EXCEPT !.progress = 0]
    /\ UNCHANGED <<strat, posted, worker, compressVars, uploadVars>>

Init ==
    /\ pc = "idle"
    /\ media = "none"
    /\ originalSize = 0
    /\ targetSizeBytes = 0
    /\ img = ImgInit
    /\ gif = GifInit
    /\ vid = VidInit
    /\ aud = AudInit
    /\ trials = <<>>
    /\ rungs = <<>>
    /\ probes = 0
    /\ failed = FALSE
    /\ result = NoResult
    /\ http = 0
    /\ tempFiles = {}
    /\ now = 0
    /\ reqs = [r \in Requests |-> IdleRequest]
    /\ files = {}
    /\ strat = [c \in Calls |-> StratIdle]
    /\ posted = [c \in Calls |-> <<>>]
    /\ worker = [c \in Calls |-> WorkerIdle]
    /\ tool = ToolIdle

Next ==
    \/ PostUnsupported
    \/ PostNoFile
    \/ PostImage
    \/ ImageFirst
    \/ ImageLoop
    \/ ImageAttempt
    \/ ImageNudge
    \/ PostGif
    \/ GifFirst
    \/ GifLoop
    \/ GifAttempt
    \/ GifNudge
    \/ GifLadder
    \/ PostVideo
    \/ GetVideoMetadata
    \/ VideoFirst
    \/ VideoLoop
    \/ VideoAttempt
    \/ VideoNudge
    \/ VideoLadder
    \/ CallCompressAudio
    \/ GetAudioMetadata
    \/ AudioTrial
    \/ EncodeFails
    \/ GetMetadataFails
    \/ RouteRespond

Spec == Init /\ [][Next]_vars

NextUploads ==
    \/ Tick
    \/ \E r \in Requests : Upload(r)
    \/ \E r \in Requests : EncodeVideoRun(r)
    \/ \E r \in Requests : EncodeVideoEnd(r)
    \/ \E r \in Requests : Respond(r)
    \/ \E r \in Requests : CleanupTimer(r)
    \/ \E r \in Requests : ClientTimeout(r)

SpecUploads == Init /\ [][NextUploads]_vars

\* The same with the scheduling of the server: the synchronous code after an
\* await runs, time passes, and a timer that is due fires.  Nothing makes an
\* encoder end.
FairSpecUploads ==
    /\ SpecUploads
    /\ WF_vars(Tick)
    /\ \A r \in Requests : WF_vars(Respond(r)) /\ WF_vars(CleanupTimer(r))

-----------------------------------------------------------------------------
\* The bitrate budget of compressVideo, over a range of durations: a video
\* ten times its target is posted, the probe reports a duration of whole
\* seconds and the bit rate of the container, and compressVideo splits the
\* budget between audio and video.

MaxDuration == 3600

BudgetTargets == {TargetMiB * MiB, 50 * MiB}

\* metadata.format.bit_rate / 1000, floored: the bits of the file over its
\* duration.
BudgetMetadata(orig) ==
    { [duration |-> d,
       originalBitrate |-> Max(1, FloorDiv(orig * 8 * 1024, MiB * d)),
       width |-> 1280, height |-> 720] : d \in 1..MaxDuration }

PostLongVideo ==
    /\ pc = "idle"
    /\ \E target \in BudgetTargets : CompressVideo(10 * target, target)

GetLongVideoMetadata == \E m \in BudgetMetadata(originalSize) : VideoProbe(m)

NextBudget ==
    \/ PostLongVideo
    \/ GetLongVideoMetadata

SpecBudget == Init /\ [][NextBudget]_vars

-----------------------------------------------------------------------------
\* The initial guesses of compressImage and compressGif, over a range of file
\* sizes: files of every multiple of 0.2 MiB up to MaxFileSize of them are
\* posted.  A GIF search is taken as a whole, in the one outcome the color
\* ladder depends on: no encode of the rung came in under the target.

MaxFileSize == 600

SizedFiles == { k * SAFETY_MARGIN : k \in 1..MaxFileSize }

PostSizedImage ==
    /\ pc = "idle"
    /\ \E target \in TargetSizes :
         \E orig \in SizedFiles : CompressImage(orig, target)

PostSizedGif ==
    /\ pc = "idle"
    /\ \E target \in TargetSizes :
         \E orig \in SizedFiles : CompressGif(orig, target)

\* binarySearchLossy returns { bestLossy: null, ... }: every output of the
\* rung was over the target (its trial files are deleted by compressAtLossy).
BinarySearchLossyFindsNone ==
    /\ pc = "gifFirst"
    /\ GifSearchReturn(gif)
    /\ UNCHANGED <<requestVars, img, vid, aud, trials, probes, failed, http,
                   tempFiles, uploadVars, clientVars>>

NextGuess ==
    \/ PostSizedImage
    \/ PostSizedGif
    \/ BinarySearchLossyFindsNone
    \/ GifLadder

SpecGuess == Init /\ [][NextGuess]_vars

\* .audioChannels(audioBitrate <= 24 ? 1 : 2); a muted encode has no audio.
AudioChannels(audioBitrate) ==
    IF audioBitrate > 0 THEN (IF audioBitrate <= 24 THEN 1 ELSE 2) ELSE 0

----------------------------------------------------------------------------
\* Properties.

\* A compressor was called and has returned or thrown.
Settled == media # "none" /\ pc \in {"returned", "done"}
NeedsCompression == originalSize > ActualTarget(targetSizeBytes)

\* The metadata probe of the request was rejected.
ProbeFailed ==
    /\ media \in {"video", "audio"}
    /\ result.kind = "error"
    /\ result.message \in ProbeErrors(media)

\* The search (every rung of it) ended without a failed encode.
SearchesEnded == Settled /\ ~failed /\ ~ProbeFailed /\ NeedsCompression

\* The last search that ran found no valid candidate.
NoCandidate ==
    \/ media = "image" /\ img.bestQuality = Null
    \/ media = "gif" /\ gif.bestLossy = Null
    \/ media = "video" /\ vid.bestBitrate = Null
    \/ media = "audio" /\ aud.bestBitrate = Null

\* Size of the best candidate of the last search.
BestSize ==
    IF media = "image" THEN img.bestSize
    ELSE IF media = "gif" THEN gif.bestSize
    ELSE IF media = "video" THEN vid.bestSize
    ELSE aud.bestSize

\* C1: whenever originalSize <= targetSizeBytes - SAFETY_MARGIN, each of the
\* four compressors returns the original bytes with wasCompressed = false and
\* compressedSize = originalSize, and has run no probe and no encode.
C1_NoOpReturnsOriginal ==
    (media # "none" /\ ~NeedsCompression) =>
        /\ Settled
        /\ result.kind = "ok"
        /\ result.buffer = "original"
        /\ result.wasCompressed = FALSE
        /\ result.compressedSize = originalSize
        /\ probes = 0
        /\ trials = <<>>
        /\ rungs = <<>>

\* A video exactly at the effective target has been answered.
C1_Witness ==
    /\ media = "video"
    /\ originalSize = ActualTarget(targetSizeBytes)
    /\ pc = "done"

\* C2: every result with wasCompressed = true has compressedSize <=
\* targetSizeBytes, or carries a warning.
C2_BudgetRespected ==
    (result.kind = "ok" /\ result.wasCompressed) =>
        \/ result.compressedSize <= targetSizeBytes
        \/ result.warning

\* A compressed result exactly at the effective target.
C2_Witness ==
    /\ result.kind = "ok"
    /\ result.wasCompressed
    /\ result.compressedSize = ActualTarget(targetSizeBytes)

NegligibleThreshold(m) == IF m = "video" THEN 95 ELSE 98

C5_Original == Len(trials) <= 8

\* The epsilon under which a search treats two parameter values as the same.
Epsilon(m) ==
    IF m = "video" THEN 20 ELSE IF m = "audio" THEN 8 ELSE 1

\* C6: no two encodes of one rung's search use parameter values within
\* epsilon of each other.
C6_Original ==
    \A j \in 1..Len(trials) : \A k \in 1..(j - 1) :
        Abs(trials[j].param - trials[k].param) >= Epsilon(media)

\* C7: the rungs of one call are searched in strictly decreasing order and
\* none is searched twice.
C7_Original ==
    \A j \in 1..Len(rungs) : \A k \in 1..(j - 1) :
        rungs[k].rung > rungs[j].rung

\* Heights of RESOLUTION_STEPS strictly below the source height, in order.
IsBelow(h) == h < vid.height
StepHeights == [k \in 1..Len(RESOLUTION_STEPS) |-> RESOLUTION_STEPS[k].height]
LowerSteps == SelectSeq(StepHeights, IsBelow)

\* C8: the fallback searches of compressVideo are the resolutions of
\* RESOLUTION_STEPS strictly below the source height, in that order.
C8_Original ==
    (media = "video" /\ Len(rungs) >= 1) =>
        /\ Len(rungs) - 1 <= Len(LowerSteps)
        /\ \A k \in 2..Len(rungs) : rungs[k].rung = LowerSteps[k - 1]

\* C9: a further rung is searched only while every rung before it returned
\* no candidate; a rung that returns a candidate ends the ladder; otherwise
\* the ladder runs to its last rung.
C9_LadderStopsAtFirstCandidate ==
    /\ \A k \in 1..(Len(rungs) - 1) : rungs[k].best = Null
    /\ (pc \in EncodePcs \cup {"gifLoop", "videoLoop"}) =>
          \A k \in 1..Len(rungs) : rungs[k].best = Null
    /\ (media \in {"gif", "video"} /\ SearchesEnded) =>
          /\ Len(rungs) >= 1
          /\ rungs[Len(rungs)].best = Null =>
                rungs[Len(rungs)].rung = IF media = "gif" THEN 32 ELSE 360

\* A GIF call ended by a candidate found on its third rung.
C9_Witness ==
    /\ media = "gif"
    /\ SearchesEnded
    /\ Len(rungs) = 3
    /\ rungs[3].best # Null

\* The ladder was searched to its last rung.
LadderExhausted ==
    \/ media = "gif" /\ gif.colors = 32
    \/ media = "video" /\ vid.i = Len(RESOLUTION_STEPS) - 1
    \/ media = "image" /\ img.attempt >= ImageMaxAttempts
    \/ media = "audio" /\ aud.attempt >= AudioMaxAttempts

\* C10 as claimed: a failing encode does not abort the request; an error
\* reaches the caller only once the ladder is exhausted.
C10_Original ==
    (failed /\ Settled /\ result.kind = "error") => LadderExhausted

\* C10 as amended: a failing encode ends the compressor call at once with
\* that encoder's error (no further encode and no further rung is run), and
\* the route answers 500.
C10_EncodeFailureAborts ==
    failed =>
        /\ Settled
        /\ result = Thrown(EncodeError(media))
        /\ pc = "done" => http = 500

\* The first encode of a GIF's first rung failed and the route answered.
C10_Witness ==
    /\ failed
    /\ media = "gif"
    /\ trials = <<>>
    /\ rungs = <<>>
    /\ http = 500

\* C17: every audio encode runs at a bitrate of at least MIN_BITRATE.
C17_Original ==
    media = "audio" =>
        \A j \in 1..Len(trials) : trials[j].param >= MIN_BITRATE

\* C18: within one rung's search every update of the bounds leaves
\* minBitrate no lower and maxBitrate no higher than before.
C18_Original ==
    [][/\ pc \in {"videoFirst", "videoLoop", "videoAttempt", "videoNudge"} =>
            /\ vid'.minBitrate >= vid.minBitrate
            /\ vid'.maxBitrate <= vid.maxBitrate
       /\ pc = "audioEncode" =>
            /\ aud'.minBitrate >= aud.minBitrate
            /\ aud'.maxBitrate <= aud.maxBitrate]_vars

\* C19: every GIF encode runs with a lossy level in MIN_LOSSY..MAX_LOSSY and
\* a color count of 256, 128, 64 or 32.
C19_Original ==
    media = "gif" =>
        /\ \A j \in 1..Len(trials) : trials[j].param \in MIN_LOSSY..MAX_LOSSY
        /\ pc \in {"gifFirst", "gifAttempt", "gifNudge"} =>
              /\ gif.currentLossy \in MIN_LOSSY..MAX_LOSSY
              /\ gif.colors \in {256, 128, 64, 32}

\* C20: every image encode runs with a quality in 1..100.
C20_Original ==
    media = "image" =>
        /\ \A j \in 1..Len(trials) : trials[j].param \in 1..100
        /\ pc \in {"imageFirst", "imageAttempt", "imageNudge"} =>
              img.currentQuality \in 1..100

\* C11: when the metadata probe of compressVideo / compressAudio is rejected
\* (ffprobe error, or no video / audio stream), the compressor has rejected
\* with that error, no encode of the request has run, and the route answers
\* 500.
C11_ProbeFailureIsFatal ==
    ProbeFailed =>
        /\ Settled
        /\ trials = <<>>
        /\ rungs = <<>>
        /\ probes = 0
        /\ pc = "done" => http = 500

\* A video without a video stream was answered.
C11_Witness ==
    /\ media = "video"
    /\ result = Thrown("No video stream found")
    /\ pc = "done"

\* The request is one the interface calls invalid: no file or a refused
\* type, a target size that is not positive, or an empty input.
InvalidRequest ==
    \/ media = "none" /\ pc = "done"
    \/ media # "none" /\ (targetSizeBytes <= 0 \/ originalSize = 0)

\* C12: an invalid request is rejected, and no probe and no encode is run
\* for it.
C12_Original ==
    InvalidRequest =>
        /\ trials = <<>>
        /\ probes = 0
        /\ pc \in {"returned", "done"} => result.kind = "error"

\* The answered request is a video whose result was encoded at a height
\* below the source's.
ReducedResolutionResult ==
    /\ media = "video"
    /\ pc = "done"
    /\ http = 200
    /\ result.wasCompressed
    /\ vid.rungHeight < vid.height

\* C16: a video result obtained on a reduced-resolution rung carries the
\* resolution headers the client reads (reduced flag, original and final
\* resolution), and the audio-muted header.
C16_Original ==
    ReducedResolutionResult =>
        ClientReadsHeaders \subseteq ResponseHeaders(media, result)

\* Control is inside a rung search (binarySearchLossy or a
\* binarySearchBitrate), between two of its steps.
InSearch ==
    pc \in {"gifFirst", "gifLoop", "gifAttempt", "gifNudge",
            "videoFirst", "videoLoop", "videoAttempt", "videoNudge",
            "audioEncode"}

\* C14: when a rung search has handed control back to its caller, by a
\* normal return, an early break or a failed encode, no trial output file
\* of it is left on disk.
C14_TrialFilesDeleted ==
    /\ ~InSearch => tempFiles = {}
    /\ pc \in {"gifFirst", "videoFirst"} => tempFiles = {}

\* A video search that wrote two or more files has returned, and one that
\* wrote a file was left by a failed encode.
C14_Witness ==
    /\ media = "video"
    /\ Len(trials) >= 2
    /\ \/ pc = "videoLadder"
       \/ failed /\ pc = "returned"
    /\ tempFiles = {}

InFlight(r) == reqs[r].pc \in {"written", "encoding", "respond", "sent"}

\* C13: two requests in flight never use the same path, so the encoder of a
\* request reads that request's upload and the compressor reads back that
\* request's own trial output.
C13_Original ==
    /\ \A r \in Requests : \A q \in Requests \ {r} :
          InFlight(r) /\ InFlight(q) => reqs[r].path # reqs[q].path
    /\ \A r \in Requests :
          /\ reqs[r].input \in {Null, r}
          /\ reqs[r].got \in {Null, r}

\* C21: every video encode, on the source rung and on every fallback rung,
\* runs at a bitrate of at least 8 kbps and at most the source's bitrate.
C21_Original ==
    media = "video" =>
        \A j \in 1..Len(trials) :
            /\ trials[j].param >= 8
            /\ trials[j].param <= vid.originalBitrate

\* C22: once the caller's timeout has fired on a request, no encoder of the
\* request is running and no trial output file of it is on disk.
C22_Original ==
    \A r \in Requests :
        reqs[r].aborted =>
            /\ reqs[r].pc # "encoding"
            /\ ~Exists(reqs[r].path, "tmp1")

\* The sizes of the trials of the search that are not over the effective
\* target.
ValidSizes ==
    { trials[j].size :
        j \in { k \in 1..Len(trials) :
                  trials[k].size <= ActualTarget(targetSizeBytes) } }

\* A rung search has just returned to its caller without a failed encode.
SearchReturned ==
    /\ ~failed
    /\ \/ pc \in {"gifLadder", "videoLadder"}
       \/ media \in {"image", "audio"} /\ pc = "returned" /\ trials # <<>>

\* C23: the candidate a rung search returns is the largest valid one: its
\* size is the maximum size, over all trials of the search, that is not over
\* the target.
C23_Original ==
    SearchReturned /\ ValidSizes # {} =>
        /\ BestSize \in ValidSizes
        /\ \A s \in ValidSizes : s <= BestSize

\* Size s is under the effective target t by at most 1%.
CloseUnder(s, t) == s <= t /\ WithinOnePercentBelow(s, t)

\* C24: a trial whose output is under the target by at most 1% is the last
\* trial of its search.
C24_Original ==
    \A j \in 1..(Len(trials) - 1) :
        ~CloseUnder(trials[j].size, ActualTarget(targetSizeBytes))

\* The bounds of the running bitrate search have collapsed: at the head of
\* the video loop after an encode, or when a loop is about to encode (video:
\* as the loop head left the bounds; audio: after the clamp).
BoundsCollapsed ==
    \/ /\ pc \in {"videoLoop", "videoAttempt"}
       /\ vid.maxBitrate <= vid.minBitrate
    \/ /\ pc = "audioEncode"
       /\ trials # <<>>
       /\ aud.maxBitrate <= aud.minBitrate

\* C25: once the bounds of a rung have collapsed, the search does not go on
\* to another encode on that rung.
C25_Original ==
    [][BoundsCollapsed => /\ trials' = trials
                          /\ pc' # "videoAttempt"]_vars

\* The best candidate of the running (or last) search of each controller:
\* parameter, size, and the trial its buffer came from.
BestOf(m) ==
    IF m = "image"
      THEN [param |-> img.bestQuality, size |-> img.bestSize, buffer |-> img.bestBuffer]
    ELSE IF m = "gif"
      THEN [param |-> gif.bestLossy, size |-> gif.bestSize, buffer |-> gif.bestBuffer]
    ELSE IF m = "video"
      THEN [param |-> vid.bestBitrate, size |-> vid.bestSize, buffer |-> vid.bestBuffer]
    ELSE [param |-> aud.bestBitrate, size |-> aud.bestSize, buffer |-> aud.bestBuffer]

\* C26: in every state of every search controller, a non-null best
\* parameter comes with a best size that is not over the effective target,
\* and parameter, size and buffer are those of one trial of the search.
C26_BestIsOneValidTrial ==
    (media # "none" /\ BestOf(media).param # Null) =>
        LET best == BestOf(media)
        IN  /\ best.size <= ActualTarget(targetSizeBytes)
            /\ best.buffer \in 1..Len(trials)
            /\ trials[best.buffer].param = best.param
            /\ trials[best.buffer].size = best.size

\* A search has a best candidate taken from a trial that is not its last.
C26_Witness ==
    /\ media # "none"
    /\ BestOf(media).param # Null
    /\ BestOf(media).buffer < Len(trials)
    /\ Len(trials) >= 3

\* C27: an image search, and a GIF search on one color rung, run at most 4
\* encodes: the initial guess and up to 3 more.
C27_Original ==
    media \in {"image", "gif"} => Len(trials) <= ImageMaxAttempts

\* The last two data points of a search have the same size.
ZeroSlope(points) ==
    /\ Len(points) >= 2
    /\ LastTwo(points)[1].size = LastTwo(points)[2].size

\* C28: in every search controller, when the last two trials have the same
\* size, the parameter of the next encode is a fixed jump away from the
\* current parameter (15 quality steps, 500 lossy steps, 100 kbps), and no
\* quotient by the zero slope is evaluated: the audio search's
\* neededDiff / rate stays finite.
C28_Original ==
    [][/\ (pc = "imageLoop" /\ pc' = "imageAttempt" /\ ZeroSlope(img.dataPoints))
          => img'.currentQuality \in {Max(1, img.currentQuality - 15),
                                      Min(100, img.currentQuality + 15)}
       /\ (pc = "gifLoop" /\ pc' = "gifAttempt" /\ ZeroSlope(gif.dataPoints))
          => gif'.currentLossy = Min(MAX_LOSSY, gif.currentLossy + 500)
       /\ (pc = "videoLoop" /\ pc' = "videoAttempt" /\ ZeroSlope(vid.dataPoints))
          => vid'.currentBitrate \in
               {Max(vid.minBitrate, vid.currentBitrate - 100),
                Min(vid.maxBitrate, vid.currentBitrate + 100),
                vid'.minBitrate}
       /\ (pc = "audioEncode" /\ pc' = "audioEncode" /\ ZeroSlope(aud'.dataPoints))
          => AudioNextBitrate(aud', ActualTarget(targetSizeBytes))
               \notin {Infinity, -Infinity}]_vars

\* compressVideo has split the budget of the request.
BudgetSplit == media = "video" /\ vid.duration > 0

\* const targetTotalBitrate = Math.floor((targetSizeMB * 8 * 1024) / duration)
Budget == TargetTotalBitrate(ActualTarget(targetSizeBytes), vid.duration)

\* C29: for every total bitrate budget the audio share of a video is 0 when
\* the budget is under 40 kbps, 24 kbps when it is in 40..79, and within
\* 24..32 kbps when it is 80 or more.
C29_Original ==
    BudgetSplit =>
        /\ Budget < 40 => vid.desiredAudioBitrate = 0
        /\ (Budget >= 40 /\ Budget < 80) => vid.desiredAudioBitrate = 24
        /\ Budget >= 80 => vid.desiredAudioBitrate \in 24..32

\* The request of the example: 500 MiB of video, 3600 s, target 50 MiB.
LongVideoExample ==
    /\ BudgetSplit
    /\ originalSize = 500 * MiB
    /\ targetSizeBytes = 50 * MiB
    /\ vid.duration = 3600

\* C30: for a 500 MB video of 3600 s with a target of 50 MB the budget is
\* 113 kbps, the audio is 24 kbps mono, and the video bitrate target is
\* 89 kbps.
C30_Original ==
    LongVideoExample =>
        /\ Budget = 113
        /\ vid.desiredAudioBitrate = 24
        /\ AudioChannels(vid.desiredAudioBitrate) = 1
        /\ vid.targetVideoBitrate = 89

\* C30, as the code computes it: the budget is 113 kbps, the audio share is
\* min(32, floor(113 / 4)) = 28 kbps in two channels, and the video bitrate
\* target is 113 - 28 = 85 kbps.
C30_BudgetOfExample ==
    LongVideoExample =>
        /\ Budget = 113
        /\ vid.desiredAudioBitrate = 28
        /\ AudioChannels(vid.desiredAudioBitrate) = 2
        /\ vid.targetVideoBitrate = 85
        /\ vid.currentBitrate = 85

C30_Witness == LongVideoExample /\ pc = "videoFirst" /\ probes = 1

\* The quality table of compressImage before the file-size adjustment.
QualityTable(orig, t) ==
    IF ReductionAtLeast(orig, t, 75) THEN 20
    ELSE IF ReductionAtLeast(orig, t, 60) THEN 35
    ELSE IF ReductionAtLeast(orig, t, 45) THEN 50
    ELSE IF ReductionAtLeast(orig, t, 30) THEN 65
    ELSE 80

\* compressImage chose its initial quality and has not encoded yet.
ImageGuessed == media = "image" /\ pc = "imageFirst"

\* C31: the initial image quality is the table value, minus 10 for files over
\* 20 MB with reductionNeeded >= 0.50, minus 5 for files over 10 MB, never
\* below 1; 15 MB with target 10 MB gives 65.
C31_Original ==
    ImageGuessed =>
        LET t == ActualTarget(targetSizeBytes)
            table == QualityTable(originalSize, t)
        IN  /\ img.currentQuality =
                 IF originalSize > 20 * MiB /\ ReductionAtLeast(originalSize, t, 50)
                   THEN Max(1, table - 10)
                 ELSE IF originalSize > 10 * MiB
                   THEN Max(1, table - 5)
                 ELSE table
            /\ (originalSize = 15 * MiB /\ targetSizeBytes = 10 * MiB)
                 => img.currentQuality = 65

\* C31, as the code computes it: both adjustments apply only when
\* reductionNeeded >= 0.50, so a file over 10 MB that needs less than half
\* its size removed starts at the table value.
C31_BothAdjustmentsNeedHalf ==
    ImageGuessed =>
        LET t == ActualTarget(targetSizeBytes)
            table == QualityTable(originalSize, t)
            half == ReductionAtLeast(originalSize, t, 50)
        IN  /\ img.currentQuality =
                 IF originalSize > 20 * MiB /\ half THEN table - 10
                 ELSE IF originalSize > 10 * MiB /\ half THEN table - 5
                 ELSE table
            /\ img.currentQuality >= 10
            /\ (originalSize = 15 * MiB /\ targetSizeBytes = 10 * MiB)
                 => img.currentQuality = 65

C31_Witness ==
    /\ ImageGuessed
    /\ originalSize = 15 * MiB
    /\ targetSizeBytes = 10 * MiB
    /\ img.currentQuality = 65

\* compressGif chose its starting colors and has not encoded yet.
GifStarted == media = "gif" /\ pc = "gifFirst" /\ rungs = <<>>

\* The GIF of the example: 40 MiB, target 10 MiB.
LargeGifExample ==
    /\ media = "gif"
    /\ originalSize = 40 * MiB
    /\ targetSizeBytes = 10 * MiB

\* C32: the first GIF color rung is 32 when reductionNeeded >= 0.95 (or
\* >= 0.90 on files over 100 MB), else 64 when >= 0.90 (or >= 0.85 on files
\* over 50 MB), else 128 when >= 0.70 or the file is over 30 MB, else 256; a
\* 40 MB GIF with target 10 MB starts at 128 colors with a lossy guess scaled
\* by a multiplier above 2, and goes on to 64 colors when the 128-color
\* search finds no valid candidate.
C32_StartingColors ==
    LET t == ActualTarget(targetSizeBytes)
        red(pct) == ReductionAtLeast(originalSize, t, pct)
        over(mb) == originalSize > mb * MiB
    IN  /\ GifStarted =>
             /\ gif.startingColors = gif.colors
             /\ gif.colors =
                  IF red(95) \/ (red(90) /\ over(100)) THEN 32
                  ELSE IF red(90) \/ (red(85) /\ over(50)) THEN 64
                  ELSE IF red(70) \/ over(30) THEN 128
                  ELSE 256
        /\ (GifStarted /\ LargeGifExample) =>
             /\ gif.colors = 128
             /\ GifFileSizeMultiplier10(originalSize, t) > 20
             /\ 10 * gif.currentLossy =
                  GifBaseGuess(originalSize, t) * GifFileSizeMultiplier10(originalSize, t)
        /\ (LargeGifExample /\ pc = "gifFirst" /\ Len(rungs) = 1) =>
             /\ rungs[1] = [rung |-> 128, best |-> Null]
             /\ gif.colors = 64

C32_Witness ==
    /\ LargeGifExample
    /\ pc = "gifFirst"
    /\ rungs = <<[rung |-> 128, best |-> Null]>>
    /\ gif.colors = 64

\* C33: when no rung of compressVideo yields a valid candidate, compressVideo
\* returns the original bytes with wasCompressed = false and compressedSize =
\* originalSize, and 'Unable to compress video below target size' is never
\* thrown.
C33_VideoNeverThrowsUnable ==
    /\ (media = "video" /\ SearchesEnded /\ NoCandidate) =>
           /\ result = Original(originalSize)
           /\ ~result.wasCompressed
           /\ result.compressedSize = originalSize
    /\ (media = "video" /\ pc \in {"returned", "done"}) =>
           result # Thrown("Unable to compress video below target size")

\* A video answered with its original bytes after its searches found nothing.
C33_Witness ==
    /\ media = "video"
    /\ SearchesEnded
    /\ NoCandidate
    /\ rungs # <<>>
    /\ pc = "done"
    /\ result = Original(originalSize)

\* The compressor of request r has returned or thrown.
CompressorEnded(r) == reqs[r].pc \in {"respond", "sent", "failed"}

\* C36: for every request that wrote its upload to a temp file, the file is
\* eventually deleted once the compressor has returned (by the timer set
\* after the response) or thrown (in the error handler).
C36_InputEventuallyDeleted ==
    \A r \in Requests :
        CompressorEnded(r) ~> ~Exists(reqs[r].path, "")

\* A response was sent while the input was on disk, and the timer has
\* deleted it.
C36_Witness ==
    \E r \in Requests :
        /\ reqs[r].pc = "cleaned"
        /\ now = reqs[r].sentAt + CleanupDelay
        /\ reqs[r].got = r
        /\ ~Exists(reqs[r].path, "")

-----------------------------------------------------------------------------
\* The browser's strategies called directly, one call per behaviour.

NextStrategies ==
    \/ CallCompressImage(DirectCall)
    \/ CallCompressGIF(DirectCall)
    \/ CallCompressVideo(DirectCall)
    \/ ClientImageIteration(DirectCall)
    \/ ClientGifIteration(DirectCall)

SpecStrategies == Init /\ [][NextStrategies]_vars

\* The worker with two messages in flight.  validateFile never yields the
\* category 'gif', so the handlers run compressImage and compressVideo only.
NextWorker ==
    \E m \in Calls :
        \/ WorkerReceive(m)
        \/ WorkerValidated(m)
        \/ ClientImageIteration(m)
        \/ WorkerComplete(m)

SpecWorker == Init /\ [][NextWorker]_vars

\* CompressorTool: uploads one after another, the timers and the listeners.
NextTool ==
    \/ StartUpload
    \/ ProgressTick
    \/ QuipTick
    \/ XhrLoad
    \/ XhrError
    \/ XhrAbort
    \/ UploadTimeout
    \/ SelectFile

SpecTool == Init /\ [][NextTool]_vars

\* compressImage or compressGIF has returned from call c.
StrategyReturned(c) ==
    /\ strat[c].fn \in {"compressImage", "compressGIF"}
    /\ strat[c].pc = "returned"

\* C34: when at least one trial of compressImage or compressGIF produced an
\* output at or under targetSizeBytes, the returned file is the largest such
\* output; an over-target file is returned only when no trial was under
\* target.
C34_Original ==
    \A c \in Calls :
        StrategyReturned(c) /\ strat[c].maxUnder # Null =>
            /\ ~strat[c].result.fileIsOriginal
            /\ strat[c].result.size = strat[c].maxUnder

\* C35: whenever compressImage or compressGIF returns a file larger than
\* targetSizeBytes, the original with wasCompressed = false included, the
\* warning of the result is defined.
C35_OverTargetHasWarning ==
    \A c \in Calls :
        StrategyReturned(c) /\ strat[c].result.size > strat[c].target =>
            strat[c].result.warning \notin {"undefined", "none"}

C35_Witness ==
    \E c \in Calls :
        /\ StrategyReturned(c)
        /\ strat[c].fn = "compressImage"
        /\ strat[c].iterations = MAX_ITERATIONS
        /\ strat[c].result.size > strat[c].target
        /\ strat[c].result.fileIsOriginal
        /\ ~strat[c].result.wasCompressed
        /\ strat[c].result.warning = "Unable to reach target size"

\* The handler of message m has dispatched a file whose bytes are a GIF.
GifDispatched(m) ==
    /\ worker[m].pc \in {"compressing", "returned"}
    /\ worker[m].data.file.mime = "image/gif"
    /\ strat[m].fn # "none"

\* C37: the worker hands a validated GIF file to compressGIF, never to the
\* generic image compressor (the server route hands image/gif to compressGif).
C37_Original ==
    \A m \in Calls : GifDispatched(m) => strat[m].fn = "compressGIF"

Terminal == {"complete", "error", "validation_error"}
Terminals(m) == { i \in DOMAIN posted[m] : posted[m][i].type \in Terminal }

\* C38: for every 'compress' message the worker posts at most one terminal
\* message, and exactly one once its handler has finished; a 'complete' is
\* immediately preceded by a progress of 100, and nothing is posted after
\* the terminal message.
C38_OneTerminalMessage ==
    \A m \in Calls :
        /\ Cardinality(Terminals(m)) <= 1
        /\ worker[m].pc = "returned" /\ worker[m].data.type = "compress"
               => Cardinality(Terminals(m)) = 1
        /\ worker[m].data.type # "compress" => posted[m] = <<>>
        /\ \A i \in Terminals(m) : i = Len(posted[m])
        /\ \A i \in DOMAIN posted[m] :
               posted[m][i].type = "complete" =>
                   /\ i > 1
                   /\ posted[m][i - 1] = ProgressMessage(100)

C38_Witness ==
    /\ \A m \in Calls : worker[m].pc = "returned"
    /\ \E m \in Calls :
           /\ strat[m].iterations = MAX_ITERATIONS
           /\ \E i \in Terminals(m) : posted[m][i].type = "complete"
    /\ \E m \in Calls :
           \E i \in Terminals(m) : posted[m][i].type = "validation_error"

\* C39: after a terminal event of an upload (a load with any status, error,
\* abort or the timeout) both intervals are cleared and isCompressing is
\* false; the progress shown exceeds 99 only after a load with status 200.
C39_TerminalEventsCleanUp ==
    /\ tool.event # "none" =>
           /\ ~tool.progressInterval
           /\ ~tool.quipInterval
           /\ ~tool.isCompressing
    /\ tool.event # "load200" => tool.progress <= 99

C39_Witness ==
    /\ tool.event = "timeout"
    /\ tool.currentProgress = 990
    /\ tool.progress = 99
    /\ tool.compressionMessage = FINISHING_QUIPS[Len(FINISHING_QUIPS)]

====
